---- MODULE Spec2Model ----
(***************************************************************************)
(* Retrieval pipeline of the AI RAG service: the chunk store              *)
(* (app/core/chroma_db.py), the indexing and answering endpoints          *)
(* (app/api/ai.py, app/api/ai_refactored.py, app/api/books.py) and the    *)
(* text segmenter (app/core/text_chunking.py).                            *)
(***************************************************************************)
EXTENDS Integers, Sequences, FiniteSets, TLC

VARIABLES
    app,        \* the router the service mounts: "ai" (ai.py) or "refactored"
    store,      \* the collection: a set of chunk records, at most one per id
    pc,         \* position of the request being served ("idle" between requests)
    question,   \* the question of the request being served
    existing,   \* existing_book_ids as read at the start of the request
    retrieved,  \* retrieved_documents of the request being served
    note,       \* what the last handler step did (observed by the properties)
    rounds,     \* local-books acquire/index/re-query rounds of this request
    passages,   \* the passage list last handed to the answer synthesis
    runs,       \* the last two indexing runs through chunk_book_text (history)
    served,     \* number of requests accepted so far
    mergeIn,    \* a call of the merge of query_with_multiple_strategies
    mergeOut,   \* ... and what it returned
    chunkIn,    \* a call of chunk_text
    chunkOut,   \* ... and how it ended
    callIn,     \* a call of one operation of the store or the planner
    callOut     \* ... and how it ended

vars == <<app, store, pc, question, existing, retrieved, note, rounds,
          passages, runs, served, mergeIn, mergeOut, chunkIn, chunkOut,
          callIn, callOut>>

\* The variables of the function-level specifications.
calls == <<mergeIn, mergeOut, chunkIn, chunkOut, callIn, callOut>>

MaxRequests == 2     \* bound: requests served in one behaviour

----------------------------------------------------------------------------
(* Bounds of the model.                                                    *)

\* add_documents_with_embeddings cuts its input into slices of BATCH_SIZE
\* chunks (5000 in chroma_db.py:158); the model keeps the slicing and scales
\* the slice width down to the size of the model corpus.
BATCH_SIZE == 2

----------------------------------------------------------------------------
(* The corpus the acquisition collaborators can deliver.                   *)

LocalBooks == <<"local_obama", "local_misc", "local_empty">>
ArchiveBooks == <<"ia_ndh">>

SeqToSet(s) == {s[i] : i \in 1..Len(s)}

Books == SeqToSet(LocalBooks) \cup SeqToSet(ArchiveBooks)

People == {"barack obama"}
Events == {"ndh"}

\* A fixed order on book identifiers (used to break ties in rankings).
BookNo(b) ==
    CASE b = "ia_ndh" -> 1
      [] b = "local_obama" -> 2
      [] b = "local_misc" -> 3
      [] OTHER -> 4

\* Whether the extraction collaborator yields substantial text for the book
\* (local_books.py:170 keeps only texts of more than 100 characters).
HasText(b) == b # "local_empty"

\* Number of chunks chunk_text yields for the book's text under the chunking
\* variant ("opt800": get_optimal_chunk_size(max 800) with the title-chosen
\* strategy; "default": chunk_text(text); "opt1000": books.py adaptive).
NumChunks(b, variant) ==
    IF ~HasText(b) THEN 0
    ELSE CASE b = "local_obama" -> 3
           [] b = "local_misc" -> 2
           [] OTHER -> 3

\* The text of chunk i of book b under a chunking variant.
ChunkTexts(b, variant) ==
    [i \in 1..NumChunks(b, variant) |-> <<b, variant, i - 1>>]

\* any(part in book_id.lower() for part in person.split() if len(part) > 3)
IdHasPersonPart(b, person) == b = "local_obama" /\ person = "barack obama"

\* any(word in book_id.lower() for word in event.split())
IdHasEventWord(b, event) == b = "ia_ndh" /\ event = "ndh"

\* any(keyword in book_id_lower for keyword in event_keywords[event])
IdHasEventKeyword(b, event) == b = "ia_ndh" /\ event = "ndh"

\* "dreams" in book_id and "obama" in book_id; "obama" in book_id
IdHasDreams(b) == FALSE
IdHasObama(b) == b = "local_obama"

\* len(description) once joined to a string: none reaches 50 characters
DescriptionLen(b) == 20

\* person in title/creator/description, or a long part of it in the title
TitleHasPerson(b, person) == b = "local_obama" /\ person = "barack obama"

\* an event keyword in title + creator + description
TitleHasEventKeyword(b, event) == FALSE

\* person in content.lower(), or a long part of the person's name in it
ContentMentionsPerson(doc, person) ==
    doc[1] = "local_obama" /\ doc[3] = 0 /\ person = "barack obama"

\* any(keyword in content for keyword in event_keywords[event])
ContentHasEventKeyword(doc, event) ==
    doc[1] = "local_misc" /\ doc[3] = 0 /\ event = "ndh"

\* len(content) of the chunk text
ContentLen(doc) ==
    IF doc[1] \in {"local_misc", "ia_ndh"} /\ doc[3] = NumChunks(doc[1], doc[2]) - 1
    THEN 8 ELSE 60

----------------------------------------------------------------------------
(* Chunk records: id, metadata (book_id, chunk_index, source_type) and the *)
(* chunk text.                                                             *)

ChunkId(book, tag, i) == <<book, tag, i>>

MakeChunks(book, tag, src, variant) ==
    LET texts == ChunkTexts(book, variant)
    IN  [i \in 1..Len(texts) |->
            [id |-> ChunkId(book, tag, i - 1), book |-> book, idx |-> i - 1,
             src |-> src, doc |-> texts[i]]]

\* ai_refactored.py chunk_book_text
chunk_book_text(book) == MakeChunks(book, "fulltext", "full_text", "opt800")

\* books.py chunk_book_text
books_chunk_book_text(book) == MakeChunks(book, "chunk", "local_file", "opt1000")

Min(a, b) == IF a <= b THEN a ELSE b

Take(s, n) == SubSeq(s, 1, Min(n, Len(s)))

RECURSIVE Flatten(_)
Flatten(ss) == IF ss = <<>> THEN <<>> ELSE Head(ss) \o Flatten(Tail(ss))

Ids(chunks) == [i \in 1..Len(chunks) |-> chunks[i].id]

----------------------------------------------------------------------------
(* The chunk store.                                                        *)

\* An insert that never replaces (not the program's upsert).
UpsertKeepsOld(st, batch) == st \cup SeqToSet(batch)

\* collection.upsert(documents, metadatas, ids): add, or replace by id
Upsert(st, batch) ==
    {c \in st : \A i \in 1..Len(batch) : batch[i].id # c.id} \cup SeqToSet(batch)

NumBatches(n) == (n + BATCH_SIZE - 1) \div BATCH_SIZE

Batch(chunks, k) ==
    SubSeq(chunks, (k - 1) * BATCH_SIZE + 1, Min(k * BATCH_SIZE, Len(chunks)))

\* The store after batches 1..k of chunks have been upserted.
RECURSIVE UpsertBatches(_, _, _)
UpsertBatches(st, chunks, k) ==
    IF k = 0 THEN st
    ELSE Upsert(UpsertBatches(st, chunks, k - 1), Batch(chunks, k))

\* add_documents_with_embeddings(docs, metadatas, ids).  avail: whether
\* get_or_create_collection() returns a collection; failAt: the batch whose
\* upsert raises (0: none does).  The except clause prints the error, so
\* the function returns normally whatever happened: raised is always FALSE.
add_documents_with_embeddings(st, chunks, avail, failAt) ==
    IF ~avail
    THEN [store |-> st, rejected |-> TRUE, raised |-> FALSE]
    ELSE IF failAt = 0
    THEN [store |-> UpsertBatches(st, chunks, NumBatches(Len(chunks))),
          rejected |-> FALSE, raised |-> FALSE]
    ELSE [store |-> UpsertBatches(st, chunks, failAt - 1),
          rejected |-> TRUE, raised |-> FALSE]

\* The failure points an add of these chunks can meet.
FailPoints(chunks) == 0..NumBatches(Len(chunks))

\* get_existing_book_ids(): the book_id of every chunk the store returns;
\* the empty set when the collection is unavailable or the query raises.
get_existing_book_ids(st, avail) ==
    IF avail THEN {c.book : c \in st} ELSE {}

\* delete_book_chunks(book_id): remove every chunk of the book and return
\* how many were removed.
delete_book_chunks(st, book) ==
    [store |-> {c \in st : c.book # book},
     count |-> Cardinality({c \in st : c.book = book})]

----------------------------------------------------------------------------
(* Similarity queries.  The store ranks by embedding distance, a fixed     *)
(* function of the query text and the chunk text.                          *)

TagNo(tag) ==
    CASE tag = "fulltext" -> 1
      [] tag = "local" -> 2
      [] tag = "fallback" -> 3
      [] OTHER -> 4

\* Distance of a chunk text from the question.
Dist(q, doc) ==
    IF \E p \in q.people : ContentMentionsPerson(doc, p) THEN 1 ELSE 2

\* Distance of a chunk text from a probe phrase ("I went", "I arrived", ...).
ProbeDist(doc) == IF doc[3] = 1 THEN 1 ELSE 2

RankKey(d, c) == d * 1000 + BookNo(c.book) * 100 + TagNo(c.id[2]) * 10 + c.idx

Hit(c, d) == [chunk |-> c, dist |-> d]

\* Insert a hit into a list of hits kept in ascending order of RankKey.
RECURSIVE InsertByRank(_, _)
InsertByRank(sorted, h) ==
    IF sorted = <<>> THEN <<h>>
    ELSE IF RankKey(h.dist, h.chunk) < RankKey(Head(sorted).dist, Head(sorted).chunk)
    THEN <<h>> \o sorted
    ELSE <<Head(sorted)>> \o InsertByRank(Tail(sorted), h)

RECURSIVE Ascending(_)
Ascending(hits) ==
    IF hits = {} THEN <<>>
    ELSE LET h == CHOOSE x \in hits : TRUE
         IN  InsertByRank(Ascending(hits \ {h}), h)

\* The n nearest chunks in ascending distance, as hits (chunk, distance).
Nearest(hits, n) == Take(Ascending(hits), n)

\* The store's chunks with their distances from the question.
QueryHits(st, q) == {Hit(c, Dist(q, c.doc)) : c \in st}

\* The store's chunks with their distances from a probe phrase.
ProbeHits(st) == {Hit(c, ProbeDist(c.doc)) : c \in st}

\* query_similar_documents(query, n_results): the hits, or the empty result
\* when the collection is unavailable or the query raises.
query_similar_documents(st, q, n, ok) ==
    IF ok THEN Nearest(QueryHits(st, q), n) ELSE <<>>

\* A distance the store did not supply (None).
NoDist == 0 - 1

\* priority_score(item)[0]
Priority(h) ==
    IF IdHasDreams(h.chunk.book) /\ IdHasObama(h.chunk.book) THEN 0
    ELSE IF IdHasObama(h.chunk.book) THEN 1
    ELSE 2

\* all_items.sort(key=priority_score) raises TypeError when it has to order
\* a None distance against a number, which it must within one priority class.
SortRaises(items) ==
    LET none == {Priority(items[i]) : i \in {j \in 1..Len(items) :
                                                items[j].dist = NoDist}}
        some == {Priority(items[i]) : i \in {j \in 1..Len(items) :
                                                items[j].dist # NoDist}}
    IN  none \cap some # {}

\* A sort key without the priority class (not the program's).
SortKeyDistanceOnly(h) == h.dist

\* all_items.sort(key=priority_score): ascending (priority, distance);
\* list.sort is stable, so equal keys keep their order.
SortKey(h) == Priority(h) * 1000 + h.dist

\* Insert h into a sorted list behind every item whose key is not greater.
RECURSIVE InsertByKey(_, _)
InsertByKey(sorted, h) ==
    IF sorted = <<>> THEN <<h>>
    ELSE IF SortKey(h) < SortKey(Head(sorted)) THEN <<h>> \o sorted
    ELSE <<Head(sorted)>> \o InsertByKey(Tail(sorted), h)

RECURSIVE SortByPriority(_)
SortByPriority(items) ==
    IF items = <<>> THEN <<>>
    ELSE InsertByKey(SortByPriority(SubSeq(items, 1, Len(items) - 1)),
                     items[Len(items)])

\* A loop that tells items apart by chunk id (not the program's).
RECURSIVE TakeUniqueById(_, _, _, _)
TakeUniqueById(items, seen, acc, cap) ==
    IF items = <<>> THEN acc
    ELSE LET h == Head(items)
         IN  IF h.chunk.id \notin seen /\ Len(acc) < cap
             THEN TakeUniqueById(Tail(items), seen \cup {h.chunk.id},
                                 Append(acc, h), cap)
             ELSE TakeUniqueById(Tail(items), seen, acc, cap)

\* The loop over all_items: keep an item when its text is new and fewer than
\* cap items are kept.
RECURSIVE TakeUnique(_, _, _, _)
TakeUnique(items, seen, acc, cap) ==
    IF items = <<>> THEN acc
    ELSE LET h == Head(items)
         IN  IF h.chunk.doc \notin seen /\ Len(acc) < cap
             THEN TakeUnique(Tail(items), seen \cup {h.chunk.doc},
                             Append(acc, h), cap)
             ELSE TakeUnique(Tail(items), seen, acc, cap)

\* The merge of query_with_multiple_strategies: base hits, then the probe
\* hits, sorted by priority and distance, deduplicated by chunk text, at most
\* n_results * 3 kept; the empty result when the sort raises.
MergeHits(base, probes, n) ==
    LET all == base \o probes
    IN  IF SortRaises(all) THEN <<>>
        ELSE TakeUnique(SortByPriority(all), {}, <<>>, n * 3)

\* key_terms[:5]: four phrases when the question spells "barack" and "obama".
NumKeyTerms(q) == IF "barack obama" \in q.people THEN 4 ELSE 0

RECURSIVE Repeat(_, _)
Repeat(s, k) == IF k = 0 THEN <<>> ELSE s \o Repeat(s, k - 1)

\* query_with_multiple_strategies(query, n_results)
query_with_multiple_strategies(st, q, n, ok) ==
    IF ~ok THEN <<>>
    ELSE LET base == Nearest(QueryHits(st, q), n)
             term == Nearest(ProbeHits(st), 5)
             personal == Nearest(ProbeHits(st), 3)
         IN  MergeHits(base, Repeat(term, NumKeyTerms(q)) \o Repeat(personal, 3), n)

----------------------------------------------------------------------------
(* RelevanceFilter: ai_refactored.py process_query_results.               *)

BookAboutPerson(b, p) == IdHasPersonPart(b, p) \/ TitleHasPerson(b, p)

IsRelevant(q, h) ==
    \/ \E p \in q.people : BookAboutPerson(h.chunk.book, p)
    \/ \E e \in q.events : IdHasEventKeyword(h.chunk.book, e)

\* A selection that ignores the detected entities (not the program's).
FirstFiveSurvivors(results, q) ==
    Take(SelectSeq(results, LAMBDA h : ContentLen(h.chunk.doc) >= 10), 5)

process_query_results(results, q) ==
    LET all_docs == SelectSeq(results, LAMBDA h : ContentLen(h.chunk.doc) >= 10)
        relevant_docs == SelectSeq(all_docs, LAMBDA h : IsRelevant(q, h))
        other_docs == SelectSeq(all_docs, LAMBDA h : ~IsRelevant(q, h))
        top == Take(relevant_docs, 10)
        final_docs == IF Len(top) < 5
                      THEN top \o Take(other_docs, 5 - Len(top))
                      ELSE top
    IN  Take(final_docs, 5)

\* query_relevant_chunks(question)
query_relevant_chunks(st, q, ok) ==
    process_query_results(
        IF q.detailed THEN query_with_multiple_strategies(st, q, 30, ok)
        ELSE query_similar_documents(st, q, 20, ok), q)

----------------------------------------------------------------------------
(* ai_refactored.py: acquisition and indexing helpers.                     *)

IsLocal(b) == b \in SeqToSet(LocalBooks)

RECURSIVE Dedupe(_, _)
Dedupe(s, seen) ==
    IF s = <<>> THEN <<>>
    ELSE IF Head(s) \in seen THEN Dedupe(Tail(s), seen)
    ELSE <<Head(s)>> \o Dedupe(Tail(s), seen \cup {Head(s)})

find_books_for_people(local_books, people) ==
    SelectSeq(local_books, LAMBDA b : \E p \in people : TitleHasPerson(b, p))

find_books_for_events(local_books, events) ==
    SelectSeq(local_books, LAMBDA b : \E e \in events : TitleHasEventKeyword(b, e))

\* The relevant_books list of search_for_books and handle_local_books_fallback,
\* duplicates removed.
RelevantLocalBooks(local_books, q) ==
    Dedupe(find_books_for_people(local_books, q.people)
           \o find_books_for_events(local_books, q.events), {})

get_local_books_not_in_db(existing_book_ids) ==
    SelectSeq(LocalBooks, LAMBDA b : b \notin existing_book_ids)

\* process_local_books_for_chromadb(): the books with extracted text
process_local_books_for_chromadb == {b \in SeqToSet(LocalBooks) : HasText(b)}

\* search_for_books(query, existing_book_ids, question); ia: what the archive
\* search returns (empty when it fails or finds nothing).
search_for_books(q, existing_book_ids, ia) ==
    LET new_relevant == SelectSeq(RelevantLocalBooks(LocalBooks, q),
                                  LAMBDA b : b \notin existing_book_ids)
    IN  IF (q.people # {} \/ q.events # {}) /\ new_relevant # <<>>
        THEN new_relevant
        ELSE IF ia # <<>> THEN ia
        ELSE get_local_books_not_in_db(existing_book_ids)

filter_relevant_books(books, existing_book_ids) ==
    SelectSeq(books, LAMBDA b : b \notin existing_book_ids)

\* handle_download_fallback(book_texts, ids, existing_book_ids)
handle_download_fallback(book_texts, existing_book_ids) ==
    IF book_texts = {} /\ get_local_books_not_in_db(existing_book_ids) # <<>>
    THEN process_local_books_for_chromadb
    ELSE book_texts

\* download_and_process_books(relevant_books, existing_book_ids): the books
\* a text was obtained for; dl: whether the archive downloads succeed.
download_and_process_books(relevant_books, existing_book_ids, dl) ==
    IF \E i \in 1..Len(relevant_books) : IsLocal(relevant_books[i])
    THEN process_local_books_for_chromadb \cap SeqToSet(relevant_books)
    ELSE handle_download_fallback(
             IF dl THEN {b \in SeqToSet(Take(relevant_books, 3)) : HasText(b)}
             ELSE {},
             existing_book_ids)

\* process_books_to_chunks(relevant_books, book_texts, book_info_map)
process_books_to_chunks(relevant_books, book_texts) ==
    Flatten([i \in 1..Len(relevant_books) |->
        LET b == relevant_books[i]
        IN  IF b \in book_texts THEN chunk_book_text(b)
            ELSE IF DescriptionLen(b) >= 50
            THEN MakeChunks(b, "fulltext", "full_text", "description")
            ELSE <<>>])

\* add_chunks_to_chromadb(chunks, metadatas, chunk_ids): raised stands for
\* the HTTPException(500) of its except clause.
add_chunks_to_chromadb(st, chunks, avail, failAt) ==
    IF chunks = <<>>
    THEN [store |-> st, rejected |-> FALSE, raised |-> FALSE]
    ELSE LET r == add_documents_with_embeddings(st, chunks, avail, failAt)
         IN  [store |-> r.store, rejected |-> r.rejected, raised |-> r.raised]

\* The chunks process_and_add_local_books(local_books, local_book_texts)
\* hands to add_chunks_to_chromadb: metadata["source_type"] = "local_file".
LocalChunks(local_books, local_book_texts) ==
    Flatten([i \in 1..Len(local_books) |->
        LET b == local_books[i]
            cs == chunk_book_text(b)
        IN  IF b \in local_book_texts
            THEN [k \in 1..Len(cs) |-> [cs[k] EXCEPT !.src = "local_file"]]
            ELSE <<>>])

----------------------------------------------------------------------------
(* ai_refactored.py handle_local_books_fallback.                           *)

has_good_content_for_people(q, docs) ==
    \E i \in 1..Len(docs) : \E p \in q.people :
        /\ IdHasPersonPart(docs[i].chunk.book, p)
        /\ ContentMentionsPerson(docs[i].chunk.doc, p)
        /\ ContentLen(docs[i].chunk.doc) > 50

need_fallback(q, docs) ==
    \/ Len(docs) < 3
    \/ q.people # {} /\ ~has_good_content_for_people(q, docs)
    \/ q.events # {} /\ ~\E i \in 1..Len(docs) : \E e \in q.events :
                            IdHasEventWord(docs[i].chunk.book, e)

\* books_to_reprocess, in the order scan_local_books() lists them
books_to_reprocess(q, docs, existing_book_ids) ==
    IF q.people # {} /\ ~has_good_content_for_people(q, docs)
    THEN SelectSeq(LocalBooks, LAMBDA b :
             b \in existing_book_ids /\ \E p \in q.people : IdHasPersonPart(b, p))
    ELSE <<>>

\* Position of the first book of the list a text exists for, 0 if none.
FirstWithText(books) ==
    IF \E i \in 1..Len(books) : books[i] \in process_local_books_for_chromadb
    THEN CHOOSE i \in 1..Len(books) :
            /\ books[i] \in process_local_books_for_chromadb
            /\ \A j \in 1..(i - 1) : books[j] \notin process_local_books_for_chromadb
    ELSE 0

\* What one call of handle_local_books_fallback sets out to do:
\*   kind     "sufficient" (returns the documents as they are), "reprocess",
\*            "regular", or "nothing" (no new local books, or no texts)
\*   deletes  the books whose chunks it deletes first
\*   books    the local books it chunks and adds before the re-query
FallbackPlan(q, docs, existing_book_ids) ==
    LET cands == books_to_reprocess(q, docs, existing_book_ids)
        first == FirstWithText(cands)
        local_books == get_local_books_not_in_db(existing_book_ids)
        relevant_books == RelevantLocalBooks(local_books, q)
    IN  IF ~need_fallback(q, docs)
        THEN [kind |-> "sufficient", deletes |-> <<>>, books |-> <<>>]
        ELSE IF first > 0
        THEN [kind |-> "reprocess", deletes |-> Take(cands, first),
              books |-> <<cands[first]>>]
        ELSE IF local_books = <<>> \/ process_local_books_for_chromadb = {}
        THEN [kind |-> "nothing", deletes |-> cands, books |-> <<>>]
        ELSE [kind |-> "regular", deletes |-> cands,
              books |-> IF relevant_books # <<>> THEN relevant_books
                        ELSE local_books]

RECURSIVE DeleteAll(_, _)
DeleteAll(st, books) ==
    IF books = <<>> THEN st
    ELSE DeleteAll(delete_book_chunks(st, Head(books)).store, Tail(books))

\* generate_final_answer: the relevant_content joined into the prompt
relevant_content(q, docs) ==
    SelectSeq(docs, LAMBDA h :
        \/ \E p \in q.people : \/ ContentMentionsPerson(h.chunk.doc, p)
                               \/ IdHasPersonPart(h.chunk.book, p)
                               \/ TitleHasPerson(h.chunk.book, p)
        \/ \E e \in q.events : ContentHasEventKeyword(h.chunk.doc, e)
        \/ q.people = {} /\ q.events = {})

----------------------------------------------------------------------------
(* The service.  A request is served in steps; between the steps of one    *)
(* request the store can become unavailable or come back.                  *)

\* The questions asked: what detect_people_in_question and
\* detect_historical_events_in_question find in them, and whether they ask
\* for details ("kako", "gdje", ...: the multi-strategy query).
Questions ==
    {[people |-> {}, events |-> {}, detailed |-> FALSE],
     [people |-> People, events |-> {}, detailed |-> TRUE],
     [people |-> {}, events |-> Events, detailed |-> FALSE],
     [people |-> People, events |-> Events, detailed |-> FALSE]}

\* What can go wrong in one add: the collection is unavailable, or the upsert
\* of one batch raises.
Faults(chunks) ==
    {<<TRUE, k>> : k \in FailPoints(chunks)} \cup {<<FALSE, 0>>}

\* The archive: unreachable, searchable but downloads fail, or working.
Archive == {"down", "search_only", "up"}

Note(op, kind, rejected, error, judged) ==
    [op |-> op, kind |-> kind, rejected |-> rejected, error |-> error,
     judged |-> judged]

NoNote == Note("none", "none", FALSE, FALSE, <<>>)

\* One indexing run through chunk_book_text and add_documents_with_embeddings:
\* the documents chunked, the chunk ids produced, whether every batch was
\* written, and the store it left.
Run(chunks, r) ==
    [books |-> {chunks[i].book : i \in 1..Len(chunks)}, ids |-> Ids(chunks),
     n |-> Len(chunks), ok |-> ~r.rejected,
     content |-> {<<c.id, c.doc>> : c \in r.store},
     count |-> Cardinality(r.store)]

Push(rs, run) == IF Len(rs) < 2 THEN Append(rs, run) ELSE <<rs[2], run>>

NoCall == [made |-> FALSE]

SysInit ==
    /\ store = {}
    /\ pc = "idle"
    /\ question = [people |-> {}, events |-> {}, detailed |-> FALSE]
    /\ existing = {}
    /\ retrieved = <<>>
    /\ note = NoNote
    /\ rounds = 0
    /\ passages = <<>>
    /\ runs = <<>>
    /\ served = 0

Init ==
    /\ app \in {"ai", "refactored"}
    /\ SysInit
    /\ mergeIn = NoCall /\ mergeOut = NoCall
    /\ chunkIn = NoCall /\ chunkOut = NoCall
    /\ callIn = NoCall /\ callOut = NoCall

\* ai_refactored.py ai_generate, steps 1 to 5
RStart(q) ==
    /\ app = "refactored" /\ pc = "idle"
    /\ served < MaxRequests
    /\ served' = served + 1
    /\ \E availE \in BOOLEAN, net \in Archive :
        LET ex == get_existing_book_ids(store, availE)
            books == search_for_books(q, ex, IF net = "down" THEN <<>>
                                            ELSE ArchiveBooks)
            relevant_books == filter_relevant_books(books, ex)
            book_texts == download_and_process_books(relevant_books, ex,
                                                     net = "up")
            chunks == IF relevant_books = <<>> THEN <<>>
                      ELSE process_books_to_chunks(relevant_books, book_texts)
        IN  \E f \in Faults(chunks) :
            LET r == add_chunks_to_chromadb(store, chunks, f[1], f[2])
            IN  /\ question' = q
                /\ existing' = ex
                /\ store' = r.store
                /\ retrieved' = <<>>
                /\ passages' = <<>>
                /\ rounds' = 0
                /\ runs' = IF chunks = <<>> THEN <<>> ELSE <<Run(chunks, r)>>
                /\ note' = Note("start",
                                IF books = <<>> THEN "no_books" ELSE "indexed",
                                r.rejected, r.raised, <<>>)
                /\ pc' = IF books = <<>> \/ r.raised THEN "idle" ELSE "query"
    /\ UNCHANGED app
    /\ UNCHANGED calls

\* ai_refactored.py ai_generate, step 6
RQuery ==
    /\ app = "refactored" /\ pc = "query"
    /\ \E ok \in BOOLEAN :
        retrieved' = query_relevant_chunks(store, question, ok)
    /\ note' = Note("query", "primary", FALSE, FALSE, <<>>)
    /\ pc' = "fallback"
    /\ UNCHANGED <<app, store, question, existing, rounds, passages, runs,
                   served>>
    /\ UNCHANGED calls

\* ai_refactored.py ai_generate, step 7: handle_local_books_fallback
RFallback ==
    /\ app = "refactored" /\ pc = "fallback"
    /\ LET plan == FallbackPlan(question, retrieved, existing)
           chunks == LocalChunks(plan.books, process_local_books_for_chromadb)
           requery == plan.kind \in {"reprocess", "regular"}
       IN  \E delOk, ok \in BOOLEAN, f \in Faults(chunks) :
           LET st1 == IF delOk THEN DeleteAll(store, plan.deletes) ELSE store
               r == add_chunks_to_chromadb(st1, chunks, f[1], f[2])
               additional_docs ==
                   IF requery
                   THEN process_query_results(
                            query_similar_documents(r.store, question, 10, ok),
                            question)
                   ELSE <<>>
           IN  /\ store' = r.store
               /\ retrieved' = retrieved \o additional_docs
               /\ rounds' = IF requery THEN rounds + 1 ELSE rounds
               /\ runs' = IF chunks = <<>> THEN runs
                          ELSE Push(IF st1 = store THEN runs ELSE <<>>,
                                    Run(chunks, r))
               /\ note' = Note("fallback", plan.kind, r.rejected, r.raised,
                               retrieved)
    /\ pc' = "answer"
    /\ UNCHANGED <<app, question, existing, passages, served>>
    /\ UNCHANGED calls

\* ai_refactored.py ai_generate, step 8: generate_final_answer
RAnswer ==
    /\ app = "refactored" /\ pc = "answer"
    /\ passages' = relevant_content(question, retrieved)
    /\ note' = Note("answer",
                    IF retrieved = <<>> THEN "no_context"
                    ELSE IF relevant_content(question, retrieved) = <<>>
                    THEN "no_relevant" ELSE "llm",
                    FALSE, FALSE, retrieved)
    /\ pc' = "idle"
    /\ UNCHANGED <<app, store, question, existing, retrieved, rounds, runs,
                   served>>
    /\ UNCHANGED calls

\* books.py load_all_books
LoadAllBooks ==
    /\ app = "refactored" /\ pc = "idle"
    /\ served < MaxRequests
    /\ served' = served + 1
    /\ \E availE \in BOOLEAN :
        LET ex == get_existing_book_ids(store, availE)
            books_to_process == get_local_books_not_in_db(ex)
            all_chunks == Flatten([i \in 1..Len(books_to_process) |->
                              IF HasText(books_to_process[i])
                              THEN books_chunk_book_text(books_to_process[i])
                              ELSE <<>>])
        IN  \E f \in Faults(all_chunks) :
            LET r == IF all_chunks = <<>>
                     THEN [store |-> store, rejected |-> FALSE, raised |-> FALSE]
                     ELSE add_documents_with_embeddings(store, all_chunks,
                                                        f[1], f[2])
            IN  /\ store' = r.store
                /\ existing' = ex
                /\ note' = Note("load",
                                IF books_to_process = <<>> THEN "all_present"
                                ELSE IF all_chunks = <<>> THEN "no_text"
                                ELSE "processed",
                                r.rejected, r.raised, <<>>)
    /\ runs' = <<>>
    /\ UNCHANGED <<app, pc, question, retrieved, rounds, passages>>
    /\ UNCHANGED calls

----------------------------------------------------------------------------
(* ai.py ai_generate, the router app/main.py mounts.                       *)

\* chunk_text(full_text) with the default size and strategy, under the id
\* scheme f"{book_id}_{tag}_chunk_{i}"
ai_chunks(books, texts, tag, src) ==
    Flatten([i \in 1..Len(books) |->
        IF books[i] \in texts \/ (tag = "fulltext" /\ DescriptionLen(books[i]) >= 50)
        THEN MakeChunks(books[i], tag, src, "default")
        ELSE <<>>])

\* Steps 2 to 4: the books searched, the new ones, their texts, the chunks.
\* stop: the request ends with a "no books" answer.
ai_acquire(existing_book_ids, net) ==
    LET books == IF net = "down" THEN LocalBooks ELSE ArchiveBooks
        is_local_books == \E i \in 1..Len(books) : IsLocal(books[i])
        new_books == SelectSeq(books, LAMBDA b : b \notin existing_book_ids)
        downloaded == IF net = "up"
                      THEN {b \in SeqToSet(Take(new_books, 3)) : HasText(b)}
                      ELSE {}
        switch == new_books # <<>> /\ ~is_local_books /\ downloaded = {}
                    /\ LocalBooks # <<>>
        book_texts == IF new_books = <<>> THEN {}
                      ELSE IF is_local_books
                      THEN process_local_books_for_chromadb \cap SeqToSet(new_books)
                      ELSE IF switch THEN process_local_books_for_chromadb
                      ELSE downloaded
        relevant_books == IF switch THEN LocalBooks ELSE new_books
        book_info_map == SeqToSet(books) \cap existing_book_ids
    IN  [stop |-> book_texts = {} /\ book_info_map = {},
         chunks |-> IF book_texts = {} THEN <<>>
                    ELSE ai_chunks(relevant_books, book_texts, "fulltext",
                                   "full_text")]

\* The loop that adds more chunks when fewer than 2 were retrieved: a chunk
\* is added when no retrieved one has its book_id and chunk_index.
RECURSIVE RelaxAdd(_, _)
RelaxAdd(docs, results) ==
    IF results = <<>> \/ Len(docs) >= 5 THEN docs
    ELSE LET h == Head(results)
         IN  IF \E i \in 1..Len(docs) : /\ docs[i].chunk.book = h.chunk.book
                                         /\ docs[i].chunk.idx = h.chunk.idx
             THEN RelaxAdd(docs, Tail(results))
             ELSE RelaxAdd(Append(docs, h), Tail(results))

\* Step 5 (lines 289-358): the first 5 results
ai_retrieve(results) ==
    LET docs == Take(results, 5)
    IN  IF results # <<>> /\ Len(docs) < 2 THEN RelaxAdd(docs, results) ELSE docs

AStart(q) ==
    /\ app = "ai" /\ pc = "idle"
    /\ served < MaxRequests
    /\ served' = served + 1
    /\ \E availE \in BOOLEAN, net \in Archive :
        LET ex == get_existing_book_ids(store, availE)
            a == ai_acquire(ex, net)
        IN  \E f \in Faults(a.chunks) :
            LET r == IF a.chunks = <<>>
                     THEN [store |-> store, rejected |-> FALSE, raised |-> FALSE]
                     ELSE add_documents_with_embeddings(store, a.chunks,
                                                        f[1], f[2])
            IN  /\ store' = r.store
                /\ existing' = ex
                /\ note' = Note("start",
                                IF a.stop THEN "no_books" ELSE "indexed",
                                r.rejected, r.raised, <<>>)
                /\ pc' = IF a.stop THEN "idle" ELSE "query"
    /\ question' = q
    /\ retrieved' = <<>>
    /\ passages' = <<>>
    /\ rounds' = 0
    /\ runs' = <<>>
    /\ UNCHANGED app
    /\ UNCHANGED calls

AQuery ==
    /\ app = "ai" /\ pc = "query"
    /\ \E ok \in BOOLEAN :
        LET results == IF question.detailed
                       THEN query_with_multiple_strategies(store, question, 30, ok)
                       ELSE query_similar_documents(store, question, 20, ok)
        IN  /\ retrieved' = ai_retrieve(results)
            /\ pc' = IF ai_retrieve(results) = <<>> THEN "fallback" ELSE "answer"
    /\ note' = Note("query", "primary", FALSE, FALSE, <<>>)
    /\ UNCHANGED <<app, store, question, existing, rounds, passages, runs,
                   served>>
    /\ UNCHANGED calls

\* Lines 361-449: nothing was retrieved; all local books are chunked and
\* added, the store is queried again, and an empty result ends the request.
ANoResultFallback ==
    /\ app = "ai" /\ pc = "fallback"
    /\ LET chunks == ai_chunks(LocalBooks, process_local_books_for_chromadb,
                               "local", "local_file")
       IN  \E ok \in BOOLEAN, f \in Faults(chunks) :
           LET r == IF chunks = <<>>
                    THEN [store |-> store, rejected |-> FALSE, raised |-> FALSE]
                    ELSE add_documents_with_embeddings(store, chunks, f[1], f[2])
               docs == IF chunks = <<>> THEN <<>>
                       ELSE Take(query_similar_documents(r.store, question, 10, ok), 5)
           IN  /\ store' = r.store
               /\ retrieved' = retrieved \o docs
               /\ rounds' = IF chunks = <<>> THEN rounds ELSE rounds + 1
               /\ note' = Note("fallback",
                               IF docs = <<>> THEN "no_context" ELSE "local",
                               r.rejected, r.raised, retrieved)
               /\ pc' = IF retrieved \o docs = <<>> THEN "idle" ELSE "answer"
    /\ UNCHANGED <<app, question, existing, passages, runs, served>>
    /\ UNCHANGED calls

\* The per-book adds of lines 499-531: book i is chunked under the
\* "fallback" id scheme and added on its own; fs[i] is what goes wrong.
RECURSIVE AddEach(_, _, _, _)
AddEach(st, books, fs, i) ==
    IF i > Len(books) THEN [store |-> st, rejected |-> FALSE]
    ELSE LET r == add_documents_with_embeddings(st,
                      MakeChunks(books[i], "fallback", "local_file", "default"),
                      fs[i][1], fs[i][2])
             rest == AddEach(r.store, books, fs, i + 1)
         IN  [store |-> rest.store, rejected |-> r.rejected \/ rest.rejected]

FaultSeqs(books) ==
    {fs \in [1..Len(books) -> BOOLEAN \X (0..(1 + NumBatches(3)))] :
        \A i \in 1..Len(books) :
            fs[i] \in Faults(MakeChunks(books[i], "fallback", "local_file",
                                        "default"))}

\* What the language model does with a prompt.
Answers == {"answers", "insufficient", "raises"}

\* Lines 451-575: the answer is generated from the retrieved passages; an
\* answer that says it cannot answer, from passages none of which is a
\* local file, sets off the second local-books fallback.
AAnswer ==
    /\ app = "ai" /\ pc = "answer"
    /\ \E llm \in Answers :
        LET has_local_sources ==
                \E i \in 1..Len(retrieved) : retrieved[i].chunk.src = "local_file"
            books == SelectSeq(LocalBooks, HasText)
        IN  IF llm = "insufficient" /\ ~has_local_sources /\ books # <<>>
            THEN \E fs \in FaultSeqs(books), ok \in BOOLEAN :
                 LET a == AddEach(store, books, fs, 1)
                     new_results == Take(query_similar_documents(a.store,
                                             question, 10, ok), 5)
                     new_context_texts ==
                         SelectSeq(new_results,
                                   LAMBDA h : h.chunk.src = "local_file")
                 IN  /\ store' = a.store
                     /\ rounds' = rounds + 1
                     /\ passages' = IF new_context_texts # <<>>
                                    THEN new_context_texts ELSE retrieved
                     /\ note' = Note("answer", "second_fallback", a.rejected,
                                     FALSE, retrieved)
            ELSE /\ store' = store
                 /\ rounds' = rounds
                 /\ passages' = retrieved
                 /\ note' = Note("answer", llm, FALSE, FALSE, retrieved)
    /\ pc' = "idle"
    /\ UNCHANGED <<app, question, existing, retrieved, runs, served>>
    /\ UNCHANGED calls

Next ==
    \/ \E q \in Questions : RStart(q)
    \/ RQuery
    \/ RFallback
    \/ RAnswer
    \/ LoadAllBooks
    \/ \E q \in Questions : AStart(q)
    \/ AQuery
    \/ ANoResultFallback
    \/ AAnswer

Spec == Init /\ [][Next]_vars

----------------------------------------------------------------------------
(* The merge of query_with_multiple_strategies as a function of the hits   *)
(* its queries return.                                                     *)

MaxMergeN == 2       \* bound: n_results of a merge call
MaxBaseHits == 1     \* bound: hits of the base query
MaxProbeHits == 3    \* bound: hits of all probe queries together

SeqsUpTo(S, n) == UNION {[1..k -> S] : k \in 0..n}

\* Hits the queries can return: one text under two ids and at two
\* distances, three other texts, and a hit the store gave no distance for.
MergePool ==
    {Hit(MakeChunks("local_obama", "fulltext", "full_text", "default")[1], 1),
     Hit(MakeChunks("local_obama", "local", "local_file", "default")[1], 2),
     Hit(MakeChunks("local_obama", "fulltext", "full_text", "default")[2], 2),
     Hit(MakeChunks("local_misc", "fulltext", "full_text", "default")[1], 1),
     Hit(MakeChunks("local_misc", "fulltext", "full_text", "default")[2], 3),
     Hit(MakeChunks("local_misc", "fulltext", "full_text", "default")[2], NoDist)}

InitMerge ==
    /\ app = "ai"
    /\ SysInit
    /\ \E n \in 1..MaxMergeN,
          base \in SeqsUpTo(MergePool, MaxBaseHits),
          probes \in SeqsUpTo(MergePool, MaxProbeHits) :
            mergeIn = [made |-> TRUE, n |-> n, base |-> base, probes |-> probes]
    /\ mergeOut = NoCall
    /\ chunkIn = NoCall /\ chunkOut = NoCall
    /\ callIn = NoCall /\ callOut = NoCall

Merge ==
    /\ mergeIn.made /\ ~mergeOut.made
    /\ mergeOut' = [made |-> TRUE,
                    hits |-> MergeHits(mergeIn.base, mergeIn.probes, mergeIn.n)]
    /\ UNCHANGED <<app, store, pc, question, existing, retrieved, note, rounds,
                   passages, runs, served, mergeIn, chunkIn, chunkOut,
                   callIn, callOut>>

NextMerge == Merge

SpecMerge == InitMerge /\ [][NextMerge]_vars

----------------------------------------------------------------------------
(* text_chunking.py.  A text is a sequence of characters over a small      *)
(* alphabet; positions are Python's, counted from 0, where the code        *)
(* computes with them.  A call ends "ok" with its chunks, raises, or       *)
(* never returns ("hang").                                                 *)

Alphabet == {"a", "B", ".", ",", " ", "\n"}

Whitespace == {" ", "\n", "\t"}         \* \s
SentenceEnd == {".", "!", "?"}          \* [.!?]
Upper == {"B"}                          \* [A-Z] within the alphabet
Letter == {"a", "B"}                    \* [A-Za-z] within the alphabet
BreakChars == {" ", "\n", "\t", ".", "!", "?", ";", ","}

ADAPTIVE_OVERLAP == 50
DEFAULT_OVERLAP == 50
LOOKBACK == 100

Ok(chunks) == [st |-> "ok", chunks |-> chunks]
Raise == [st |-> "raise", chunks |-> <<>>]
Hang == [st |-> "hang", chunks |-> <<>>]

Max(a, b) == IF a >= b THEN a ELSE b

\* text[a:b]
PySlice(s, a, b) ==
    LET norm(x) == IF x < 0 THEN Max(Len(s) + x, 0) ELSE Min(x, Len(s))
    IN  SubSeq(s, norm(a) + 1, norm(b))

RECURSIVE LStrip(_)
LStrip(s) ==
    IF s # <<>> /\ Head(s) \in Whitespace THEN LStrip(Tail(s)) ELSE s

RECURSIVE RStrip(_)
RStrip(s) ==
    IF s # <<>> /\ s[Len(s)] \in Whitespace
    THEN RStrip(SubSeq(s, 1, Len(s) - 1)) ELSE s

\* str.strip()
Strip(s) == RStrip(LStrip(s))

\* [chunk for chunk in chunks if chunk.strip()]
NonBlank(chunks) == SelectSeq(chunks, LAMBDA c : Strip(c) # <<>>)

\* The first position from i on (1-based) whose character is not in C.
RECURSIVE SkipWhile(_, _, _)
SkipWhile(s, i, C) ==
    IF i <= Len(s) /\ s[i] \in C THEN SkipWhile(s, i + 1, C) ELSE i

\* re.sub(r'\s+', ' ', text)
RECURSIVE CollapseSpace(_)
CollapseSpace(s) ==
    IF s = <<>> THEN <<>>
    ELSE IF Head(s) \in Whitespace THEN <<" ">> \o CollapseSpace(LStrip(s))
    ELSE <<Head(s)>> \o CollapseSpace(Tail(s))

\* re.sub(r'([.!?])\s*([A-Z])', r'\1 \2', text)
RECURSIVE SpaceBeforeCapital(_)
SpaceBeforeCapital(s) ==
    IF s = <<>> THEN <<>>
    ELSE LET r == LStrip(Tail(s))
         IN  IF Head(s) \in SentenceEnd /\ r # <<>> /\ Head(r) \in Upper
             THEN <<Head(s), " ", Head(r)>> \o SpaceBeforeCapital(Tail(r))
             ELSE <<Head(s)>> \o SpaceBeforeCapital(Tail(s))

\* re.sub(r'([.!?])([A-Za-z])', r'\1 \2', text)
RECURSIVE SpaceAfterEnd(_)
SpaceAfterEnd(s) ==
    IF s = <<>> THEN <<>>
    ELSE IF Head(s) \in SentenceEnd /\ Len(s) > 1 /\ s[2] \in Letter
    THEN <<Head(s), " ", s[2]>> \o SpaceAfterEnd(Tail(Tail(s)))
    ELSE <<Head(s)>> \o SpaceAfterEnd(Tail(s))

clean_text(text) == Strip(SpaceAfterEnd(SpaceBeforeCapital(CollapseSpace(text))))

\* re.split(r',\s+', sentence), the one pattern of split_patterns that can
\* match a text over the alphabet.
RECURSIVE SplitOnComma(_, _, _)
SplitOnComma(s, from, i) ==
    IF i > Len(s) THEN <<SubSeq(s, from, Len(s))>>
    ELSE LET k == SkipWhile(s, i + 1, Whitespace)
         IN  IF s[i] = "," /\ k > i + 1
             THEN <<SubSeq(s, from, i - 1)>> \o SplitOnComma(s, k, k)
             ELSE SplitOnComma(s, from, i + 1)

RECURSIVE JoinParts(_, _, _, _, _)
JoinParts(parts, i, chunks, current, max_size) ==
    LET saved == IF current # <<>> THEN Append(chunks, Strip(current))
                 ELSE chunks
    IN  IF i > Len(parts) THEN saved
        ELSE IF Len(current) + Len(parts[i]) <= max_size
        THEN JoinParts(parts, i + 1, chunks,
                       IF current = <<>> THEN parts[i]
                       ELSE current \o <<",", " ">> \o parts[i], max_size)
        ELSE JoinParts(parts, i + 1, saved, parts[i], max_size)

\* [sentence[i:i + max_size] for i in range(0, len(sentence), max_size)]
FixedSlices(s, max_size) ==
    [k \in 1..((Len(s) + max_size - 1) \div max_size) |->
        SubSeq(s, (k - 1) * max_size + 1, Min(k * max_size, Len(s)))]

\* A split that leaves a long sentence whole (not the program's).
KeepLongSentence(sentence, max_size) == Ok(<<sentence>>)

split_long_sentence(sentence, max_size) ==
    IF Len(sentence) <= max_size THEN Ok(<<sentence>>)
    ELSE LET parts == SplitOnComma(sentence, 1, 1)
             chunks == JoinParts(parts, 1, <<>>, <<>>, max_size)
         IN  IF /\ Len(parts) > 1
                /\ \A i \in 1..Len(chunks) : Len(chunks[i]) <= max_size
             THEN Ok(chunks)
             ELSE IF max_size = 0 THEN Raise   \* range() step of zero
             ELSE Ok(FixedSlices(sentence, max_size))

\* A match of ([.!?]+)\s+(?=[A-Z]) starting at position i (1-based): where
\* the run of sentence ends stops and where the next sentence starts.
SentenceBreak(s, i) ==
    LET j == SkipWhile(s, i, SentenceEnd)
        k == SkipWhile(s, j, Whitespace)
    IN  IF j > i /\ k > j /\ k <= Len(s) /\ s[k] \in Upper
        THEN [found |-> TRUE, end |-> j - 1, next |-> k]
        ELSE [found |-> FALSE, end |-> 0, next |-> 0]

\* The sentences of re.split, each joined with its sentence ends.
RECURSIVE SplitSentences(_, _, _)
SplitSentences(s, from, i) ==
    IF i > Len(s) THEN <<SubSeq(s, from, Len(s))>>
    ELSE LET b == SentenceBreak(s, i)
         IN  IF b.found
             THEN <<SubSeq(s, from, b.end)>> \o SplitSentences(s, b.next, b.next)
             ELSE SplitSentences(s, from, i + 1)

StripAll(parts) == [i \in 1..Len(parts) |-> Strip(parts[i])]

AllButLast(chunks) ==
    IF chunks = <<>> THEN <<>> ELSE SubSeq(chunks, 1, Len(chunks) - 1)

LastOrEmpty(chunks) == IF chunks = <<>> THEN <<>> ELSE chunks[Len(chunks)]

Finish(chunks, current) ==
    Ok(NonBlank(IF Strip(current) # <<>> THEN Append(chunks, Strip(current))
                ELSE chunks))

RECURSIVE PackSentences(_, _, _, _, _)
PackSentences(sentences, i, chunks, current, chunk_size) ==
    IF i > Len(sentences) THEN Finish(chunks, current)
    ELSE LET sentence == sentences[i]
             potential == IF current # <<>>
                          THEN current \o <<" ">> \o sentence ELSE sentence
             saved == IF current # <<>> THEN Append(chunks, Strip(current))
                      ELSE chunks
             sub == split_long_sentence(sentence, chunk_size)
         IN  IF Len(potential) <= chunk_size
             THEN PackSentences(sentences, i + 1, chunks, potential, chunk_size)
             ELSE IF Len(sentence) <= chunk_size
             THEN PackSentences(sentences, i + 1, saved, sentence, chunk_size)
             ELSE IF sub.st # "ok" THEN sub
             ELSE PackSentences(sentences, i + 1,
                                saved \o AllButLast(sub.chunks),
                                LastOrEmpty(sub.chunks), chunk_size)

chunk_by_sentences(text, chunk_size) ==
    PackSentences(NonBlank(StripAll(SplitSentences(text, 1, 1))), 1,
                  <<>>, <<>>, chunk_size)

\* re.split(r'\n\s*\n', text)
RECURSIVE SplitParagraphs(_, _, _)
SplitParagraphs(s, from, i) ==
    IF i > Len(s) THEN <<SubSeq(s, from, Len(s))>>
    ELSE LET k == SkipWhile(s, i + 1, Whitespace)
             J == {j \in (i + 1)..(k - 1) : s[j] = "\n"}
             last == CHOOSE j \in J : \A m \in J : m <= j
         IN  IF s[i] = "\n" /\ J # {}
             THEN <<SubSeq(s, from, i - 1)>>
                      \o SplitParagraphs(s, last + 1, last + 1)
             ELSE SplitParagraphs(s, from, i + 1)

RECURSIVE PackParagraphs(_, _, _, _, _)
PackParagraphs(paragraphs, i, chunks, current, chunk_size) ==
    IF i > Len(paragraphs) THEN Finish(chunks, current)
    ELSE LET para == Strip(paragraphs[i])
             saved == IF current # <<>> THEN Append(chunks, Strip(current))
                      ELSE chunks
             sub == chunk_by_sentences(para, chunk_size)
         IN  IF para = <<>>
             THEN PackParagraphs(paragraphs, i + 1, chunks, current, chunk_size)
             ELSE IF Len(current) + Len(para) + 2 <= chunk_size
             THEN PackParagraphs(paragraphs, i + 1, chunks,
                                 IF current # <<>>
                                 THEN current \o <<"\n", "\n">> \o para
                                 ELSE para, chunk_size)
             ELSE IF Len(para) <= chunk_size
             THEN PackParagraphs(paragraphs, i + 1, saved, para, chunk_size)
             ELSE IF sub.st # "ok" THEN sub
             ELSE PackParagraphs(paragraphs, i + 1,
                                 saved \o AllButLast(sub.chunks),
                                 LastOrEmpty(sub.chunks), chunk_size)

chunk_by_paragraphs(text, chunk_size) ==
    PackParagraphs(SplitParagraphs(text, 1, 1), 1, <<>>, <<>>, chunk_size)

\* None of the semantic_breaks patterns can match a text over the alphabet
\* (they need a digit, "*", "-", a quote, "Chapter" or a Roman numeral), so
\* the break points are the two ends of the text.
chunk_by_semantic_breaks(text, chunk_size) ==
    LET segment == Strip(text)
        sub == chunk_by_sentences(segment, chunk_size)
    IN  IF segment = <<>> THEN Ok(<<>>)
        ELSE IF Len(segment) <= chunk_size THEN Ok(NonBlank(<<segment>>))
        ELSE IF sub.st # "ok" THEN sub
        ELSE Ok(NonBlank(sub.chunks))

\* max(chunk.rfind('.'), chunk.rfind('!'), chunk.rfind('?'))
RFind(s, C) ==
    LET I == {i \in 1..Len(s) : s[i] \in C}
    IN  IF I = {} THEN 0 - 1 ELSE (CHOOSE i \in I : \A j \in I : j <= i) - 1

\* One turn of the window per call.  The next start is a function of the
\* start alone, so a start seen before means the loop never ends; with
\* overlap >= chunk_size the start never moves forward again and the end
\* stays short of the text's end.
RECURSIVE SlideWindow(_, _, _, _, _, _)
SlideWindow(text, chunk_size, overlap, start, seen, chunks) ==
    LET whole == PySlice(text, start, start + chunk_size)
        last_sentence_end == RFind(whole, SentenceEnd)
        cut == /\ start + chunk_size < Len(text)
               /\ 10 * last_sentence_end > 7 * chunk_size
        chunk == IF cut THEN PySlice(whole, 0, last_sentence_end + 1) ELSE whole
        end == IF cut THEN start + last_sentence_end + 1 ELSE start + chunk_size
        next == end - overlap
    IN  IF end >= Len(text) THEN Ok(NonBlank(Append(chunks, Strip(chunk))))
        ELSE IF next \in seen \cup {start} THEN Hang
        ELSE IF next < start /\ overlap >= chunk_size THEN Hang
        ELSE SlideWindow(text, chunk_size, overlap, next, seen \cup {start},
                         Append(chunks, Strip(chunk)))

chunk_with_sliding_window(text, chunk_size, overlap) ==
    IF Len(text) <= chunk_size THEN Ok(<<text>>)
    ELSE SlideWindow(text, chunk_size, overlap, 0, {}, <<>>)

\* r'\n\s*[A-Z][A-Z\s]+\n', the one structure indicator that can match a
\* text over the alphabet.
CapsHeading(s) ==
    \E i, k, j \in 1..Len(s) :
        /\ i < k /\ k + 1 < j
        /\ s[i] = "\n" /\ s[k] \in Upper /\ s[j] = "\n"
        /\ \A m \in (i + 1)..(k - 1) : s[m] \in Whitespace
        /\ \A m \in (k + 1)..(j - 1) : s[m] \in Upper \cup Whitespace

has_semantic_structure(text) ==
    Cardinality({p \in {"caps"} : CapsHeading(text)}) >= 2

\* len(re.split(r'[.!?]+', text))
SentenceCount(s) ==
    1 + Cardinality({i \in 1..Len(s) :
                       /\ s[i] \in SentenceEnd
                       /\ (i = 1 \/ s[i - 1] \notin SentenceEnd)})

\* The branch chunk_adaptive takes.
adaptive_strategy(text, chunk_size) ==
    LET paragraph_count == Len(SplitParagraphs(text, 1, 1))
        sentence_count == SentenceCount(text)
    IN  IF /\ paragraph_count > 3
           /\ 10 * Len(text) < 8 * chunk_size * paragraph_count
        THEN "paragraph"
        ELSE IF 10 * Len(text) < 3 * chunk_size * sentence_count
        THEN "sliding"
        ELSE IF has_semantic_structure(text)
        THEN "semantic"
        ELSE "sentence"

chunk_adaptive(text, chunk_size) ==
    CASE adaptive_strategy(text, chunk_size) = "paragraph" ->
             chunk_by_paragraphs(text, chunk_size)
      [] adaptive_strategy(text, chunk_size) = "sliding" ->
             chunk_with_sliding_window(text, chunk_size, ADAPTIVE_OVERLAP)
      [] adaptive_strategy(text, chunk_size) = "semantic" ->
             chunk_by_semantic_breaks(text, chunk_size)
      [] OTHER -> chunk_by_sentences(text, chunk_size)

\* One chunk per call.  A break point that stays at the start leaves the
\* loop where it was, with nothing appended: it never ends.
RECURSIVE CutChunks(_, _, _, _)
CutChunks(text, chunk_size, start, chunks) ==
    LET end == start + chunk_size
        I == {i \in (Max(start, end - LOOKBACK) + 1)..end :
                text[i + 1] \in BreakChars}
        break_point == IF I = {} THEN end
                       ELSE (CHOOSE i \in I : \A j \in I : j <= i) + 1
        chunk == Strip(PySlice(text, start, break_point))
    IN  IF end >= Len(text)
        THEN Ok(NonBlank(Append(chunks, Strip(PySlice(text, start, Len(text))))))
        ELSE IF break_point = start THEN Hang
        ELSE CutChunks(text, chunk_size, break_point,
                       IF chunk # <<>> THEN Append(chunks, chunk) ELSE chunks)

simple_character_chunk(text, chunk_size) ==
    IF Len(text) <= chunk_size THEN Ok(<<text>>)
    ELSE CutChunks(text, chunk_size, 0, <<>>)

Strategies == {"sentence", "paragraph", "semantic", "sliding", "adaptive"}

RunStrategy(text, chunk_size, strategy, overlap) ==
    CASE strategy = "sentence" -> chunk_by_sentences(text, chunk_size)
      [] strategy = "paragraph" -> chunk_by_paragraphs(text, chunk_size)
      [] strategy = "semantic" -> chunk_by_semantic_breaks(text, chunk_size)
      [] strategy = "sliding" ->
             chunk_with_sliding_window(text, chunk_size, overlap)
      [] strategy = "adaptive" -> chunk_adaptive(text, chunk_size)

\* raised: the chosen strategy raised and the except branch ran.
chunk_text(text, chunk_size, strategy, overlap) ==
    LET cleaned == clean_text(text)
        tried == RunStrategy(cleaned, chunk_size, strategy, overlap)
        fallback == simple_character_chunk(cleaned, chunk_size)
    IN  IF Strip(text) = <<>>
        THEN [st |-> "ok", chunks |-> <<>>, raised |-> FALSE]
        ELSE IF tried.st = "raise"
        THEN [st |-> fallback.st, chunks |-> fallback.chunks, raised |-> TRUE]
        ELSE [st |-> tried.st, chunks |-> tried.chunks, raised |-> FALSE]

MaxTextLen == 4
MaxChunkSize == 3
MaxOverlap == 1

\* The overlaps a call is made with: sliding takes its overlap from the
\* caller, the other strategies ignore it.
Overlaps(strategy) ==
    IF strategy = "sliding" THEN 0..MaxOverlap \cup {DEFAULT_OVERLAP}
    ELSE {DEFAULT_OVERLAP}

InitChunk ==
    /\ app = "ai" /\ SysInit
    /\ mergeIn = NoCall /\ mergeOut = NoCall
    /\ \E t \in SeqsUpTo(Alphabet, MaxTextLen), c \in 0..MaxChunkSize,
          g \in Strategies :
          \E o \in Overlaps(g) :
              chunkIn = [made |-> TRUE, text |-> t, chunk_size |-> c,
                         strategy |-> g, overlap |-> o]
    /\ chunkOut = NoCall
    /\ callIn = NoCall /\ callOut = NoCall

Chunk ==
    /\ chunkIn.made /\ ~chunkOut.made
    /\ chunkOut' = [made |-> TRUE] @@
                   chunk_text(chunkIn.text, chunkIn.chunk_size,
                              chunkIn.strategy, chunkIn.overlap)
    /\ UNCHANGED <<app, store, pc, question, existing, retrieved, note,
                   rounds, passages, runs, served, mergeIn, mergeOut, chunkIn,
                   callIn, callOut>>

NextChunk == Chunk

SpecChunk == InitChunk /\ [][NextChunk]_vars

\* Texts with paragraph structure for the adaptive strategy: up to
\* MaxParagraphs paragraphs separated by blank lines.
MaxParagraphs == 4
MaxAdaptiveSize == 4

ParagraphPool == {<<"a">>, <<"a", ".">>, <<"a", " ", "B">>}

RECURSIVE JoinParagraphs(_)
JoinParagraphs(paras) ==
    IF Len(paras) = 1 THEN paras[1]
    ELSE paras[1] \o <<"\n", "\n">> \o JoinParagraphs(Tail(paras))

InitAdaptive ==
    /\ app = "ai" /\ SysInit
    /\ mergeIn = NoCall /\ mergeOut = NoCall
    /\ \E n \in 1..MaxParagraphs, c \in 1..MaxAdaptiveSize :
          \E paras \in [1..n -> ParagraphPool] :
              chunkIn = [made |-> TRUE, text |-> JoinParagraphs(paras),
                         chunk_size |-> c, strategy |-> "adaptive",
                         overlap |-> DEFAULT_OVERLAP]
    /\ chunkOut = NoCall
    /\ callIn = NoCall /\ callOut = NoCall

SpecAdaptive == InitAdaptive /\ [][NextChunk]_vars

\* get_optimal_chunk_size(text, max_chunk_size=...) without target_chunks,
\* as a function of len(text).
get_optimal_chunk_size(text_length, max_chunk_size) ==
    IF text_length < 2000 THEN Min(500, text_length \div 2)
    ELSE IF text_length < 10000 THEN 800
    ELSE max_chunk_size

\* Calls of the sliding window with an overlap below the chunk size, on
\* texts long enough for a sentence end past 70% of a window that leaves
\* room for a larger overlap; and the call books.py chunk_book_text makes
\* on a book of short sentences.
MaxSlideLen == 8
MaxSlideSize == 7
MaxSentences == 10

SlideAlphabet == {"a", "."}

\* A text of k sentences of 10 characters.
BookText(k) == Strip(Repeat(<<"B", "a", "a", "a", "a", " ", "a", "a", "a", ".", " ">>, k))

InitSlide ==
    /\ app = "ai" /\ SysInit
    /\ mergeIn = NoCall /\ mergeOut = NoCall
    /\ \/ \E t \in SeqsUpTo(SlideAlphabet, MaxSlideLen), c \in 1..MaxSlideSize :
           \E o \in 0..(c - 1) :
              chunkIn = [made |-> TRUE, text |-> t, chunk_size |-> c,
                         strategy |-> "sliding", overlap |-> o]
       \/ \E k \in 1..MaxSentences :
              chunkIn = [made |-> TRUE, text |-> BookText(k),
                         chunk_size |->
                             get_optimal_chunk_size(Len(BookText(k)), 1000),
                         strategy |-> "adaptive", overlap |-> 200]
    /\ chunkOut = NoCall
    /\ callIn = NoCall /\ callOut = NoCall

SpecSlide == InitSlide /\ [][NextChunk]_vars

----------------------------------------------------------------------------
(* chroma_db.py: the module's client and collection handles, and the read  *)
(* operations as functions of them.                                        *)

\* n_results when the caller gives none
DEFAULT_N_RESULTS == 3

\* The module globals _chroma_client and _collection: whether each is set.
Handles ==
    {[client |-> FALSE, collection |-> FALSE],
     [client |-> TRUE, collection |-> FALSE],
     [client |-> TRUE, collection |-> TRUE]}

\* get_chroma_client(): clientUp says whether chromadb.PersistentClient
\* succeeds; a failure is printed and leaves the client unset.
get_chroma_client(h, clientUp) == h.client \/ clientUp

\* get_or_create_collection(): raises RuntimeError when there is no client;
\* collUp says whether client.get_or_create_collection succeeds, a failure
\* is printed and None is returned.
get_or_create_collection(h, clientUp, collUp) ==
    IF h.collection THEN [raised |-> FALSE, collection |-> TRUE]
    ELSE IF ~get_chroma_client(h, clientUp)
    THEN [raised |-> TRUE, collection |-> FALSE]
    ELSE [raised |-> FALSE, collection |-> collUp]

ReadOps ==
    {"get_existing_book_ids", "query_similar_documents",
     "query_with_multiple_strategies"}

\* One read operation called with the handles as they are: how it ends
\* (raised) and what it returns (ids for get_existing_book_ids, hits for the
\* queries).
ReadCall(c) ==
    LET coll == get_or_create_collection(c.handles, c.clientUp, c.collUp)
        ok == coll.collection /\ c.queryOk
    IN  IF coll.raised
        THEN [made |-> TRUE, raised |-> TRUE, ids |-> {}, hits |-> <<>>]
        ELSE IF c.op = "get_existing_book_ids"
        THEN [made |-> TRUE, raised |-> FALSE,
              ids |-> get_existing_book_ids(c.store, ok), hits |-> <<>>]
        ELSE IF c.op = "query_similar_documents"
        THEN [made |-> TRUE, raised |-> FALSE, ids |-> {},
              hits |-> query_similar_documents(c.store, c.question,
                                               DEFAULT_N_RESULTS, ok)]
        ELSE [made |-> TRUE, raised |-> FALSE, ids |-> {},
              hits |-> query_with_multiple_strategies(c.store, c.question,
                                                      DEFAULT_N_RESULTS, ok)]

\* Stores a read can meet: empty, one book, two books under two id schemes.
ReadStores ==
    {{},
     SeqToSet(chunk_book_text("local_obama")),
     SeqToSet(chunk_book_text("local_obama"))
         \cup SeqToSet(books_chunk_book_text("local_misc"))}

InitReads ==
    /\ app = "ai" /\ SysInit
    /\ mergeIn = NoCall /\ mergeOut = NoCall
    /\ chunkIn = NoCall /\ chunkOut = NoCall
    /\ \E op \in ReadOps, h \in Handles, clientUp, collUp, queryOk \in BOOLEAN,
          st \in ReadStores, q \in Questions :
          callIn = [made |-> TRUE, op |-> op, handles |-> h,
                    clientUp |-> clientUp, collUp |-> collUp,
                    queryOk |-> queryOk, store |-> st, question |-> q]
    /\ callOut = NoCall

Read ==
    /\ callIn.made /\ ~callOut.made
    /\ callOut' = ReadCall(callIn)
    /\ UNCHANGED <<app, store, pc, question, existing, retrieved, note, rounds,
                   passages, runs, served, mergeIn, mergeOut, chunkIn,
                   chunkOut, callIn>>

NextReads == Read

SpecReads == InitReads /\ [][NextReads]_vars

----------------------------------------------------------------------------
(* books.py delete_book: DELETE /book/{book_id}.                           *)

\* The functions app/core/chroma_db.py defines.
ChromaDbNames ==
    {"get_chroma_client", "get_or_create_collection",
     "check_book_exists_in_db", "get_existing_book_ids",
     "add_documents_with_embeddings", "query_similar_documents",
     "query_with_multiple_strategies"}

\* delete_book(book_id): the import of delete_book_chunks from chroma_db is
\* inside the try block, so an ImportError becomes HTTPException(500), as
\* does an error of the deletion itself; otherwise the count is returned.
delete_book(st, book_id) ==
    IF "delete_book_chunks" \notin ChromaDbNames
    THEN [made |-> TRUE, raised |-> TRUE, store |-> st, deleted_chunks |-> 0]
    ELSE LET r == delete_book_chunks(st, book_id)
         IN  [made |-> TRUE, raised |-> FALSE, store |-> r.store,
              deleted_chunks |-> r.count]

\* The chunks the stores of the delete calls are made of.
DeletePool ==
    SeqToSet(chunk_book_text("local_obama"))
        \cup SeqToSet(books_chunk_book_text("local_misc"))
        \cup SeqToSet(MakeChunks("local_misc", "local", "local_file", "default"))

InitDelete ==
    /\ app = "refactored" /\ SysInit
    /\ mergeIn = NoCall /\ mergeOut = NoCall
    /\ chunkIn = NoCall /\ chunkOut = NoCall
    /\ \E st \in SUBSET DeletePool, b \in Books :
          callIn = [made |-> TRUE, op |-> "delete_book", store |-> st,
                    book_id |-> b]
    /\ callOut = NoCall

Delete ==
    /\ callIn.made /\ ~callOut.made
    /\ callOut' = delete_book(callIn.store, callIn.book_id)
    /\ UNCHANGED <<app, store, pc, question, existing, retrieved, note, rounds,
                   passages, runs, served, mergeIn, mergeOut, chunkIn,
                   chunkOut, callIn>>

NextDelete == Delete

SpecDelete == InitDelete /\ [][NextDelete]_vars


----------------------------------------------------------------------------
(* internet_archive.py generate_keywords_from_question and                 *)
(* ai_refactored.py generate_search_keywords.  A question and a keyword    *)
(* are strings over a small alphabet with one capital letter.              *)

MaxQuestionLen == 2  \* bound: characters of a question
MaxKeywords == 2     \* bound: strings in the list the language model returns

QuestionChars == {"a", "B", " "}

\* The letters str.lower() and the patterns [A-Z] and [a-z] know.
UpperLetters == <<"A", "B", "C", "D", "E", "F", "G", "H", "I", "J", "K", "L", "M", 
    "N", "O", "P", "Q", "R", "S", "T", "U", "V", "W", "X", "Y", "Z">>
LowerLetters == <<"a", "b", "c", "d", "e", "f", "g", "h", "i", "j", "k", "l", "m", 
    "n", "o", "p", "q", "r", "s", "t", "u", "v", "w", "x", "y", "z">>

LowerChar(c) ==
    IF \E k \in 1..26 : UpperLetters[k] = c
    THEN LowerLetters[CHOOSE k \in 1..26 : UpperLetters[k] = c] ELSE c

\* str.lower()
RECURSIVE Lower(_)
Lower(s) == IF s = <<>> THEN <<>> ELSE <<LowerChar(Head(s))>> \o Lower(Tail(s))

\* What client.chat.completions.create and json.loads make of a request:
\* the call raises, the message has no content, the content is not JSON, it
\* is JSON but not a list, a list holding a non-string, or a list of strings.
ReplyKinds ==
    {"raises", "no_content", "not_json", "json_not_list", "json_mixed_list",
     "json_strings"}

\* The strings the model's list is made of: the question as asked, the
\* question in lower case, an empty and a blank string, another keyword.
KeywordPool(q) ==
    {q, Lower(q), <<>>, <<" ">>, <<"a", "b">>}

\* generate_keywords_from_question(question), q the question: every
\* failure is answered with [question]; a list of strings is lower-cased
\* and loses its blank members.
generate_keywords_from_question(q, client, reply) ==
    IF ~client THEN <<q>>
    ELSE IF reply.kind = "json_strings"
    THEN LET kept == SelectSeq(reply.value, LAMBDA k : Strip(k) # <<>>)
         IN  [i \in 1..Len(kept) |-> Lower(kept[i])]
    ELSE <<q>>

\* generate_search_keywords(question): the keywords it returns (the query
\* string build_internet_archive_query_string makes of them is returned
\* beside them; that function raises for no list of strings).
generate_search_keywords(q, client, reply) ==
    LET keywords == generate_keywords_from_question(q, client, reply)
    IN  [made |-> TRUE, raised |-> FALSE,
         keywords |-> IF keywords = <<>> \/ keywords = <<q>>
                      THEN <<q>> ELSE keywords]

InitKeywords ==
    /\ app = "refactored" /\ SysInit
    /\ mergeIn = NoCall /\ mergeOut = NoCall
    /\ chunkIn = NoCall /\ chunkOut = NoCall
    /\ \E n \in 1..MaxQuestionLen : \E q \in [1..n -> QuestionChars] :
       \E client \in BOOLEAN, kind \in ReplyKinds :
       \E value \in IF kind = "json_strings"
                    THEN SeqsUpTo(KeywordPool(q), MaxKeywords) ELSE {<<>>} :
          callIn = [made |-> TRUE, op |-> "generate_search_keywords",
                    question |-> q, client |-> client,
                    reply |-> [kind |-> kind, value |-> value]]
    /\ callOut = NoCall

Keywords ==
    /\ callIn.made /\ ~callOut.made
    /\ callOut' = generate_search_keywords(callIn.question, callIn.client,
                                           callIn.reply)
    /\ UNCHANGED <<app, store, pc, question, existing, retrieved, note, rounds,
                   passages, runs, served, mergeIn, mergeOut, chunkIn,
                   chunkOut, callIn>>

NextKeywords == Keywords

SpecKeywords == InitKeywords /\ [][NextKeywords]_vars


----------------------------------------------------------------------------
(* chroma_db.py add_documents_with_embeddings on its three parallel lists  *)
(* docs, metadatas and ids: the upsert calls its batching loop issues.     *)

MaxAddLen == 5       \* bound: chunks handed to one add

\* A slice end that runs one element into the next batch (not the
\* program's).
BatchEndLong(i, total_docs) == Min(i + BATCH_SIZE + 1, total_docs)

\* end_idx = min(i + BATCH_SIZE, total_docs)
BatchEnd(i, total_docs) == Min(i + BATCH_SIZE, total_docs)

\* The arguments of the upsert of every iteration of
\* `for i in range(0, total_docs, BATCH_SIZE)`, total_docs being len(docs).
UpsertCalls(docs, metadatas, ids) ==
    [k \in 1..NumBatches(Len(docs)) |->
        LET i == (k - 1) * BATCH_SIZE
            end_idx == BatchEnd(i, Len(docs))
        IN  [documents |-> PySlice(docs, i, end_idx),
             metadatas |-> PySlice(metadatas, i, end_idx),
             ids |-> PySlice(ids, i, end_idx)]]

\* The chunk records one upsert call carries.
CallChunks(call) ==
    [j \in 1..Len(call.ids) |->
        [id |-> call.ids[j], book |-> call.metadatas[j].book,
         idx |-> call.metadatas[j].idx, src |-> call.metadatas[j].src,
         doc |-> call.documents[j]]]

\* The store after the first n of the calls.
RECURSIVE UpsertEach(_, _, _)
UpsertEach(st, upserts, n) ==
    IF n = 0 THEN st
    ELSE Upsert(UpsertEach(st, upserts, n - 1), CallChunks(upserts[n]))

\* One call of add_documents_with_embeddings: no upsert is issued without a
\* collection; the upsert of batch failAt raises, which ends the loop.
AddCall(c) ==
    LET upserts == UpsertCalls(c.docs, c.metadatas, c.ids)
        issued == IF ~c.avail THEN 0
                  ELSE IF c.failAt = 0 THEN Len(upserts) ELSE c.failAt
        written == IF ~c.avail THEN 0
                   ELSE IF c.failAt = 0 THEN Len(upserts) ELSE c.failAt - 1
    IN  [made |-> TRUE, raised |-> FALSE,
         upserts |-> SubSeq(upserts, 1, issued),
         rejected |-> ~c.avail \/ c.failAt # 0,
         store |-> UpsertEach(c.store, upserts, written)]

\* The chunks the added lists are made of.
AddPool ==
    SeqToSet(chunk_book_text("local_obama"))
        \cup {MakeChunks("local_misc", "local", "local_file", "default")[1]}

\* The callers build the three lists in step, one entry of each per chunk.
InitAdd ==
    /\ app = "refactored" /\ SysInit
    /\ mergeIn = NoCall /\ mergeOut = NoCall
    /\ chunkIn = NoCall /\ chunkOut = NoCall
    /\ \E chunks \in SeqsUpTo(AddPool, MaxAddLen), avail \in BOOLEAN :
       \E failAt \in FailPoints(chunks) :
          callIn = [made |-> TRUE, op |-> "add_documents_with_embeddings",
                    store |-> {},
                    docs |-> [j \in 1..Len(chunks) |-> chunks[j].doc],
                    metadatas |-> [j \in 1..Len(chunks) |->
                                      [book |-> chunks[j].book,
                                       idx |-> chunks[j].idx,
                                       src |-> chunks[j].src]],
                    ids |-> Ids(chunks), avail |-> avail, failAt |-> failAt]
    /\ callOut = NoCall

Add ==
    /\ callIn.made /\ ~callOut.made
    /\ callOut' = AddCall(callIn)
    /\ UNCHANGED <<app, store, pc, question, existing, retrieved, note, rounds,
                   passages, runs, served, mergeIn, mergeOut, chunkIn,
                   chunkOut, callIn>>

NextAdd == Add

SpecAdd == InitAdd /\ [][NextAdd]_vars


----------------------------------------------------------------------------
(* ai_refactored.py detect_people_in_question.  A question is a string of  *)
(* ASCII characters: words of a small vocabulary joined by single spaces.  *)

MaxQuestionWords == 3    \* bound: words of a question

\* known_people, in the order of the dictionary.  The four entries whose
\* canonical name has a letter outside ASCII (pavelic, tudman, mesic,
\* milanovic) are left out; no word of the vocabulary holds one of their
\* variations.
known_people ==
    <<[full_name |-> <<"b", "a", "r", "a", "c", "k", " ", "o", "b", "a", "m", "a">>,
      variations |-> <<<<"b", "a", "r", "a", "c", "k", " ", "o", "b", "a", "m", "a">>,
                     <<"o", "b", "a", "m", "a">>>>],
     [full_name |-> <<"d", "o", "n", "a", "l", "d", " ", "t", "r", "u", "m", "p">>,
      variations |-> <<<<"d", "o", "n", "a", "l", "d", " ", "t", "r", "u", "m", "p">>,
                     <<"t", "r", "u", "m", "p">>>>],
     [full_name |-> <<"v", "l", "a", "d", "i", "m", "i", "r", " ", "p", "u", "t", "i", "n">>,
      variations |-> <<<<"v", "l", "a", "d", "i", "m", "i", "r", " ", "p", "u", "t", "i", "n">>,
                     <<"p", "u", "t", "i", "n">>>>],
     [full_name |-> <<"w", "i", "n", "s", "t", "o", "n", " ", "c", "h", "u", "r", "c", "h", "i", "l", "l">>,
      variations |-> <<<<"w", "i", "n", "s", "t", "o", "n", " ", "c", "h", "u", "r", "c", "h", "i", "l", "l">>,
                     <<"c", "h", "u", "r", "c", "h", "i", "l", "l">>>>],
     [full_name |-> <<"n", "a", "p", "o", "l", "e", "o", "n", " ", "b", "o", "n", "a", "p", "a", "r", "t", "e">>,
      variations |-> <<<<"n", "a", "p", "o", "l", "e", "o", "n">>,
                     <<"b", "o", "n", "a", "p", "a", "r", "t", "e">>>>],
     [full_name |-> <<"a", "d", "o", "l", "f", " ", "h", "i", "t", "l", "e", "r">>,
      variations |-> <<<<"h", "i", "t", "l", "e", "r">>,
                     <<"a", "d", "o", "l", "f", " ", "h", "i", "t", "l", "e", "r">>>>],
     [full_name |-> <<"j", "o", "s", "e", "p", "h", " ", "s", "t", "a", "l", "i", "n">>,
      variations |-> <<<<"s", "t", "a", "l", "i", "n">>,
                     <<"j", "o", "s", "e", "p", "h", " ", "s", "t", "a", "l", "i", "n">>>>],
     [full_name |-> <<"a", "b", "r", "a", "h", "a", "m", " ", "l", "i", "n", "c", "o", "l", "n">>,
      variations |-> <<<<"l", "i", "n", "c", "o", "l", "n">>,
                     <<"a", "b", "r", "a", "h", "a", "m", " ", "l", "i", "n", "c", "o", "l", "n">>>>],
     [full_name |-> <<"g", "e", "o", "r", "g", "e", " ", "w", "a", "s", "h", "i", "n", "g", "t", "o", "n">>,
      variations |-> <<<<"w", "a", "s", "h", "i", "n", "g", "t", "o", "n">>,
                     <<"g", "e", "o", "r", "g", "e", " ", "w", "a", "s", "h", "i", "n", "g", "t", "o", "n">>>>],
     [full_name |-> <<"f", "r", "a", "n", "k", "l", "i", "n", " ", "r", "o", "o", "s", "e", "v", "e", "l", "t">>,
      variations |-> <<<<"r", "o", "o", "s", "e", "v", "e", "l", "t">>,
                     <<"f", "r", "a", "n", "k", "l", "i", "n", " ", "r", "o", "o", "s", "e", "v", "e", "l", "t">>,
                     <<"f", "d", "r">>>>],
     [full_name |-> <<"j", "o", "h", "n", " ", "k", "e", "n", "n", "e", "d", "y">>,
      variations |-> <<<<"k", "e", "n", "n", "e", "d", "y">>,
                     <<"j", "o", "h", "n", " ", "k", "e", "n", "n", "e", "d", "y">>,
                     <<"j", "f", "k">>>>],
     [full_name |-> <<"b", "i", "l", "l", " ", "c", "l", "i", "n", "t", "o", "n">>,
      variations |-> <<<<"c", "l", "i", "n", "t", "o", "n">>,
                     <<"b", "i", "l", "l", " ", "c", "l", "i", "n", "t", "o", "n">>>>],
     [full_name |-> <<"j", "o", "e", " ", "b", "i", "d", "e", "n">>,
      variations |-> <<<<"b", "i", "d", "e", "n">>,
                     <<"j", "o", "e", " ", "b", "i", "d", "e", "n">>>>],
     [full_name |-> <<"g", "e", "o", "r", "g", "e", " ", "b", "u", "s", "h">>,
      variations |-> <<<<"b", "u", "s", "h">>,
                     <<"g", "e", "o", "r", "g", "e", " ", "b", "u", "s", "h">>>>],
     [full_name |-> <<"n", "e", "l", "s", "o", "n", " ", "m", "a", "n", "d", "e", "l", "a">>,
      variations |-> <<<<"n", "e", "l", "s", "o", "n", " ", "m", "a", "n", "d", "e", "l", "a">>,
                     <<"m", "a", "n", "d", "e", "l", "a">>>>],
     [full_name |-> <<"m", "a", "r", "t", "i", "n", " ", "l", "u", "t", "h", "e", "r", " ", "k", "i", "n", "g">>,
      variations |-> <<<<"m", "a", "r", "t", "i", "n", " ", "l", "u", "t", "h", "e", "r", " ", "k", "i", "n", "g">>,
                     <<"m", "l", "k">>,
                     <<"k", "i", "n", "g">>>>],
     [full_name |-> <<"m", "a", "l", "c", "o", "l", "m", " ", "x">>,
      variations |-> <<<<"m", "a", "l", "c", "o", "l", "m", " ", "x">>,
                     <<"m", "a", "l", "c", "o", "l", "m">>>>],
     [full_name |-> <<"g", "a", "n", "d", "h", "i">>,
      variations |-> <<<<"g", "a", "n", "d", "h", "i">>,
                     <<"m", "a", "h", "a", "t", "m", "a", " ", "g", "a", "n", "d", "h", "i">>>>],
     [full_name |-> <<"j", "o", "s", "i", "p", " ", "b", "r", "o", "z", " ", "t", "i", "t", "o">>,
      variations |-> <<<<"t", "i", "t", "o">>,
                     <<"j", "o", "s", "i", "p", " ", "b", "r", "o", "z">>,
                     <<"b", "r", "o", "z">>>>]>>

\* common_words
common_words ==
    <<<<"W", "o", "r", "l", "d", " ", "W", "a", "r">>, <<"N", "e", "w", " ", "Y", "o", "r", "k">>, <<"U", "n", "i", "t", "e", "d", " ", "S", "t", "a", "t", "e", "s">>, <<"R", "o", "m", "a", "n", " ", "E", "m", "p", "i", "r", "e">>,
      <<"S", "o", "v", "i", "e", "t", " ", "U", "n", "i", "o", "n">>>>

\* sub in s
Contains(s, sub) ==
    \E i \in 0..(Len(s) - Len(sub)) : \A j \in 1..Len(sub) : s[i + j] = sub[j]

IsUpper(c) == \E k \in 1..26 : UpperLetters[k] = c      \* [A-Z]
IsLower(c) == \E k \in 1..26 : LowerLetters[k] = c      \* [a-z]
IsWordChar(c) == IsUpper(c) \/ IsLower(c)               \* \w, among ASCII

SeqOfSet(s) == {s[i] : i \in 1..Len(s)}

\* A match of \b[A-Z][a-z]+\s+[A-Z][a-z]+\b that starts at position i
\* (1-based): every repetition is greedy and no shorter repetition can
\* match where the longest fails.
NameAt(s, i) ==
    LET j == SkipWhile(s, i + 1, SeqOfSet(LowerLetters))
        k == SkipWhile(s, j, Whitespace)
        m == SkipWhile(s, k + 1, SeqOfSet(LowerLetters))
    IN  IF /\ i <= Len(s) /\ IsUpper(s[i])
           /\ (i = 1 \/ ~IsWordChar(s[i - 1]))
           /\ j > i + 1
           /\ k > j /\ k <= Len(s) /\ IsUpper(s[k])
           /\ m > k + 1
           /\ (m > Len(s) \/ ~IsWordChar(s[m]))
        THEN [found |-> TRUE, end |-> m - 1]
        ELSE [found |-> FALSE, end |-> 0]

\* re.findall(name_pattern, question): the matches from left to right, each
\* search starting where the match before ended.
RECURSIVE FindNames(_, _)
FindNames(s, i) ==
    IF i > Len(s) THEN <<>>
    ELSE LET a == NameAt(s, i)
         IN  IF a.found
             THEN <<SubSeq(s, i, a.end)>> \o FindNames(s, a.end + 1)
             ELSE FindNames(s, i + 1)

\* The loop over known_people: a person whose variation is in the
\* lower-cased question is appended under the canonical name.
RECURSIVE KnownFound(_, _)
KnownFound(question_lower, i) ==
    IF i > Len(known_people) THEN <<>>
    ELSE (IF \E v \in 1..Len(known_people[i].variations) :
                 Contains(question_lower, known_people[i].variations[v])
          THEN <<known_people[i].full_name>> ELSE <<>>)
         \o KnownFound(question_lower, i + 1)

\* A loop over potential_names that appends every name (not the program's).
RECURSIVE AddEveryName(_, _)
AddEveryName(people_found, names) ==
    IF names = <<>> THEN people_found
    ELSE AddEveryName(Append(people_found, Lower(Head(names))), Tail(names))

\* The loop over potential_names: a name is appended in lower case unless
\* it is already in people_found or holds one of the common_words.
RECURSIVE AddNames(_, _)
AddNames(people_found, names) ==
    IF names = <<>> THEN people_found
    ELSE LET name == Head(names)
             name_lower == Lower(name)
         IN  IF /\ \A p \in 1..Len(people_found) :
                       Lower(people_found[p]) # name_lower
                /\ \A c \in 1..Len(common_words) : ~Contains(name, common_words[c])
             THEN AddNames(Append(people_found, name_lower), Tail(names))
             ELSE AddNames(people_found, Tail(names))

detect_people_in_question(q) ==
    AddNames(KnownFound(Lower(q), 1), FindNames(q, 1))

\* The words the questions of the model are made of.
Vocabulary ==
    {<<"W", "h", "o">>, <<"w", "a", "s">>, <<"N", "a", "p", "o", "l", "e", "o", "n", "?">>, <<"B", "o", "n", "a", "p", "a", "r", "t", "e">>, <<"N", "a", "p", "o", "l", "e", "o", "n">>, <<"R", "a", "n", "d", "o", "m">>,
     <<"u", "n", "r", "e", "l", "a", "t", "e", "d">>, <<"t", "e", "x", "t">>, <<"V", "i", "k", "i", "n", "g">>, <<"J", "o", "s", "i", "p">>, <<"B", "r", "o", "z">>, <<"Y", "o", "r", "k">>}

\* ' '.join(words)
RECURSIVE JoinWords(_)
JoinWords(words) ==
    IF words = <<>> THEN <<>>
    ELSE IF Len(words) = 1 THEN words[1]
    ELSE words[1] \o <<" ">> \o JoinWords(Tail(words))

InitPeople ==
    /\ app = "refactored" /\ SysInit
    /\ mergeIn = NoCall /\ mergeOut = NoCall
    /\ chunkIn = NoCall /\ chunkOut = NoCall
    /\ \E n \in 1..MaxQuestionWords : \E words \in [1..n -> Vocabulary] :
          callIn = [made |-> TRUE, op |-> "detect_people_in_question",
                    question |-> JoinWords(words)]
    /\ callOut = NoCall

DetectPeople ==
    /\ callIn.made /\ ~callOut.made
    /\ callOut' = [made |-> TRUE,
                   people |-> detect_people_in_question(callIn.question)]
    /\ UNCHANGED <<app, store, pc, question, existing, retrieved, note, rounds,
                   passages, runs, served, mergeIn, mergeOut, chunkIn,
                   chunkOut, callIn>>

NextPeople == DetectPeople

SpecPeople == InitPeople /\ [][NextPeople]_vars

----------------------------------------------------------------------------
(* The selection of the passages from the pool a query returned: lines     *)
(* 301-351 of ai.py and process_query_results of ai_refactored.py, called  *)
(* on their own.                                                           *)

MaxPoolLen == 6      \* bound: hits in the pool a query returned

\* The hits a query can return: chunks of a book about the person, of a
\* book about the event and of another book, the last one too short.
RetrievePool ==
    {Hit(c, 1) : c \in SeqToSet(chunk_book_text("local_obama"))
                       \cup SeqToSet(Take(chunk_book_text("ia_ndh"), 2))
                       \cup SeqToSet(chunk_book_text("local_misc"))}

\* The lists of up to n different elements of S.
RECURSIVE InjSeqs(_, _)
InjSeqs(S, n) ==
    IF n = 0 THEN {<<>>}
    ELSE LET shorter == InjSeqs(S, n - 1)
         IN  shorter \cup
             {Append(p[1], p[2]) :
                 p \in {r \in shorter \X S :
                           Len(r[1]) = n - 1 /\ r[2] \notin SeqToSet(r[1])}}

InitRetrieve ==
    /\ app \in {"ai", "refactored"}
    /\ SysInit
    /\ mergeIn = NoCall /\ mergeOut = NoCall
    /\ chunkIn = NoCall /\ chunkOut = NoCall
    /\ \E q \in Questions : \E results \in InjSeqs(RetrievePool, MaxPoolLen) :
          /\ app = "ai" => (q.people = {} /\ q.events = {})
          /\ callIn = [made |-> TRUE, op |-> "retrieve", question |-> q,
                       results |-> results]
    /\ callOut = NoCall

\* ai.py: retrieved_documents built from results
RetrieveFirst ==
    /\ app = "ai"
    /\ callIn.made /\ ~callOut.made
    /\ callOut' = [made |-> TRUE, docs |-> ai_retrieve(callIn.results)]
    /\ UNCHANGED <<app, store, pc, question, existing, retrieved, note, rounds,
                   passages, runs, served, mergeIn, mergeOut, chunkIn,
                   chunkOut, callIn>>

\* ai_refactored.py: process_query_results(results, question)
RetrieveFiltered ==
    /\ app = "refactored"
    /\ callIn.made /\ ~callOut.made
    /\ callOut' = [made |-> TRUE,
                   docs |-> process_query_results(callIn.results,
                                                  callIn.question)]
    /\ UNCHANGED <<app, store, pc, question, existing, retrieved, note, rounds,
                   passages, runs, served, mergeIn, mergeOut, chunkIn,
                   chunkOut, callIn>>

NextRetrieve == RetrieveFirst \/ RetrieveFiltered

SpecRetrieve == InitRetrieve /\ [][NextRetrieve]_vars

----------------------------------------------------------------------------
(* internet_archive.py build_internet_archive_query_string, and the        *)
(* planning step generate_search_keywords of ai_refactored.py that feeds   *)
(* it the keywords.                                                        *)

MaxPlanKeywords == 3     \* bound: strings in the language model's list

\* The substrings that make a keyword a main entity (the two entries with
\* a non-ASCII letter, which no keyword of the model contains, are left
\* out).
entity_words ==
    {<<"e", "m", "p", "i", "r", "e">>,
     <<"k", "i", "n", "g", "d", "o", "m">>,
     <<"r", "e", "p", "u", "b", "l", "i", "c">>,
     <<"u", "n", "i", "o", "n">>,
     <<"s", "t", "a", "t", "e">>,
     <<"d", "y", "n", "a", "s", "t", "y">>,
     <<"p", "a", "r", "t", "y">>,
     <<"m", "o", "v", "e", "m", "e", "n", "t">>,
     <<"a", "l", "l", "i", "a", "n", "c", "e">>,
     <<"c", "o", "n", "f", "e", "d", "e", "r", "a", "t", "i", "o", "n">>,
     <<"f", "e", "d", "e", "r", "a", "t", "i", "o", "n">>,
     <<"n", "d", "h">>,
     <<"h", "r", "v", "a", "t", "s", "k", "a">>,
     <<"c", "r", "o", "a", "t", "i", "a">>,
     <<"y", "u", "g", "o", "s", "l", "a", "v", "i", "a">>,
     <<"s", "o", "v", "i", "e", "t", " ", "u", "n", "i", "o", "n">>,
     <<"r", "o", "m", "a", "n", " ", "e", "m", "p", "i", "r", "e">>,
     <<"b", "y", "z", "a", "n", "t", "i", "n", "e">>,
     <<"o", "t", "t", "o", "m", "a", "n">>,
     <<"b", "r", "i", "t", "i", "s", "h", " ", "e", "m", "p", "i", "r", "e">>,
     <<"f", "r", "e", "n", "c", "h", " ", "r", "e", "p", "u", "b", "l", "i", "c">>,
     <<"t", "h", "i", "r", "d", " ", "r", "e", "i", "c", "h">>,
     <<"u", "s", "t", "a", "s", "e">>,
     <<"p", "a", "r", "t", "i", "z", "a", "n", "i">>,
     <<"p", "a", "r", "t", "i", "s", "a", "n">>,
     <<"n", "a", "z", "i">>,
     <<"c", "o", "m", "m", "u", "n", "i", "s", "t">>}

IsMainEntity(keyword) ==
    \E entity \in entity_words : Contains(Lower(keyword), entity)

\* len(keyword.split())
WordCount(s) ==
    Cardinality({i \in 1..Len(s) :
                    /\ s[i] \notin Whitespace
                    /\ (i = 1 \/ s[i - 1] \in Whitespace)})

\* len(keyword.split()) >= 2 and any(char.isupper() for char in keyword)
IsPersonName(keyword) ==
    /\ WordCount(keyword) >= 2
    /\ \E i \in 1..Len(keyword) : IsUpper(keyword[i])

\* f'"{term}"'
Quote(term) == <<"\"">> \o term \o <<"\"">>

\* '"..."' if " " in term else term
QuoteIfSpaced(term) ==
    IF \E i \in 1..Len(term) : term[i] = " " THEN Quote(term) ELSE term

\* The full form put in place of the entity 'ndh' (its second word is
\* written here without its diacritic).
NDH_FULL == <<"N", "e", "z", "a", "v", "i", "s", "n", "a", " ", "D", "r", "z", "a", "v", "a", " ", "H", "r", "v", "a", "t", "s", "k", "a">>

EntityPart(entity) ==
    IF \E i \in 1..Len(entity) : entity[i] = " " THEN Quote(entity)
    ELSE IF Lower(entity) = <<"n", "d", "h">> THEN Quote(NDH_FULL)
    ELSE entity

RECURSIVE EntityParts(_)
EntityParts(entities) ==
    IF entities = <<>> THEN <<>>
    ELSE <<EntityPart(Head(entities))>> \o EntityParts(Tail(entities))

RECURSIVE QuotedParts(_)
QuotedParts(terms) ==
    IF terms = <<>> THEN <<>>
    ELSE <<QuoteIfSpaced(Head(terms))>> \o QuotedParts(Tail(terms))

\* sep.join(parts)
RECURSIVE JoinWith(_, _)
JoinWith(parts, sep) ==
    IF parts = <<>> THEN <<>>
    ELSE IF Len(parts) = 1 THEN parts[1]
    ELSE parts[1] \o sep \o JoinWith(Tail(parts), sep)

\* build_internet_archive_query_string(keywords): the three groups, the
\* parts of the query, the operator that joins them and the string
\* returned.  (has_historical_entities only guards two `pass` statements.)
build_internet_archive_query_string(keywords) ==
    LET main_entities == SelectSeq(keywords, IsMainEntity)
        people_names == SelectSeq(keywords,
                            LAMBDA k : ~IsMainEntity(k) /\ IsPersonName(k))
        other_terms == SelectSeq(keywords,
                            LAMBDA k : ~IsMainEntity(k) /\ ~IsPersonName(k))
        entity_parts == EntityParts(main_entities)
        entity_group ==
            IF main_entities = <<>> THEN <<>>
            ELSE IF Len(entity_parts) > 1
            THEN << <<"(">> \o JoinWith(entity_parts, <<" ", "O", "R", " ">>) \o <<")">> >>
            ELSE <<entity_parts[1]>>
        query_parts ==
            entity_group \o QuotedParts(people_names)
                \o (IF main_entities = <<>> /\ people_names = <<>>
                    THEN QuotedParts(Take(other_terms, 2)) ELSE <<>>)
        combined_keywords ==
            IF query_parts # <<>> THEN JoinWith(query_parts, <<" ", "A", "N", "D", " ">>)
            ELSE JoinWith(QuotedParts(Take(keywords, 3)), <<" ", "O", "R", " ">>)
    IN  [people_names |-> people_names,
         query_parts |-> query_parts,
         joiner |-> IF query_parts # <<>> THEN "AND" ELSE "OR",
         final_query |->
             IF keywords = <<>> \/ combined_keywords = <<>>
             THEN <<"m", "e", "d", "i", "a", "t", "y", "p", "e", ":", "(", "t", "e", "x", "t", "s", ")">>
             ELSE <<"m", "e", "d", "i", "a", "t", "y", "p", "e", ":", "(", "t", "e", "x", "t", "s", ")", " ", "A", "N", "D", " ", "(">> \o combined_keywords \o <<")">>]

\* The questions asked and the strings the language model's list is made
\* of: a person's full name, an entity, a single word.
PlanQuestions == {<<"N", "a", "p", "o", "l", "e", "o", "n", " ", "B", "o", "n", "a", "p", "a", "r", "t", "e">>, <<"W", "h", "o", " ", "w", "a", "s", " ", "N", "a", "p", "o", "l", "e", "o", "n", "?">>}

PlanKeywordPool ==
    {<<"N", "a", "p", "o", "l", "e", "o", "n", " ", "B", "o", "n", "a", "p", "a", "r", "t", "e">>, <<"F", "r", "e", "n", "c", "h", " ", "E", "m", "p", "i", "r", "e">>, <<"W", "a", "t", "e", "r", "l", "o", "o">>, <<"n", "a", "p", "o", "l", "e", "o", "n">>}

InitPlan ==
    /\ app = "refactored" /\ SysInit
    /\ mergeIn = NoCall /\ mergeOut = NoCall
    /\ chunkIn = NoCall /\ chunkOut = NoCall
    /\ \E q \in PlanQuestions, client \in BOOLEAN, kind \in ReplyKinds :
       \E value \in IF kind = "json_strings"
                    THEN SeqsUpTo(PlanKeywordPool, MaxPlanKeywords)
                    ELSE {<<>>} :
          callIn = [made |-> TRUE, op |-> "generate_search_keywords",
                    question |-> q, client |-> client,
                    reply |-> [kind |-> kind, value |-> value]]
    /\ callOut = NoCall

\* generate_search_keywords(question): keywords, archive_query_string
Plan ==
    /\ callIn.made /\ ~callOut.made
    /\ LET keywords == generate_search_keywords(callIn.question, callIn.client,
                                                 callIn.reply).keywords
       IN  callOut' = [made |-> TRUE, keywords |-> keywords,
                       archive |-> build_internet_archive_query_string(keywords)]
    /\ UNCHANGED <<app, store, pc, question, existing, retrieved, note, rounds,
                   passages, runs, served, mergeIn, mergeOut, chunkIn,
                   chunkOut, callIn>>

NextPlan == Plan

SpecPlan == InitPlan /\ [][NextPlan]_vars

----------------------------------------------------------------------------
(* internet_archive_downloader.py: download_multiple_books and the loop of *)
(* download_and_extract_text, one loop turn per step.  The requests sent   *)
(* to the archive and the calls of time.sleep are logged in their order.   *)

MaxBooks == 2        \* bound: identifiers handed to download_multiple_books
MAX_FILES == 2       \* max_files of download_and_extract_text

\* What happens to one file of an item: it is larger than 50 MB; it is on
\* disk already; the download fails; the download succeeds; it succeeds
\* and fills the character limit.
FileKinds == {"large", "on_disk", "fails", "ok", "ok_full"}

\* What the archive holds for an identifier: a processing error, or the
\* files get_item_files lists (none when the metadata request fails).
Items == {<<"raises">>} \cup SeqsUpTo(FileKinds, MAX_FILES)

InitDownload ==
    /\ app = "ai" /\ SysInit
    /\ mergeIn = NoCall /\ mergeOut = NoCall
    /\ chunkIn = NoCall /\ chunkOut = NoCall
    /\ \E n \in 1..MaxBooks : \E books \in [1..n -> Items] :
          callIn = [made |-> TRUE, op |-> "download_multiple_books",
                    books |-> books]
    /\ callOut = [made |-> FALSE, book |-> 1, file |-> 0, log |-> <<>>]

Downloading ==
    /\ callIn.made /\ callIn.op = "download_multiple_books"
    /\ ~callOut.made

\* download_and_extract_text up to its loop: the metadata request of
\* get_item_files; with no file, or on an error, the call is over.
GetItemFiles ==
    /\ Downloading
    /\ callOut.book <= Len(callIn.books) /\ callOut.file = 0
    /\ LET item == callIn.books[callOut.book]
       IN  callOut' = [callOut EXCEPT
               !.log = Append(@, "metadata"),
               !.file = IF item = <<>> \/ item = <<"raises">>
                        THEN MAX_FILES + 1 ELSE 1]
    /\ UNCHANGED <<app, store, pc, question, existing, retrieved, note, rounds,
                   passages, runs, served, mergeIn, mergeOut, chunkIn,
                   chunkOut, callIn>>

\* One turn of `for file_info in files[:max_files]`: a large file and a
\* failed download `continue`, a full text `break`s, and only a turn that
\* runs to its end sleeps.
FileTurn ==
    /\ Downloading
    /\ callOut.book <= Len(callIn.books)
    /\ callOut.file >= 1
    /\ callOut.file <= Min(MAX_FILES, Len(callIn.books[callOut.book]))
    /\ LET kind == callIn.books[callOut.book][callOut.file]
           events == CASE kind = "large" -> <<>>
                       [] kind = "on_disk" -> <<"sleep">>
                       [] kind = "fails" -> <<"download">>
                       [] kind = "ok" -> <<"download", "sleep">>
                       [] kind = "ok_full" -> <<"download">>
       IN  callOut' = [callOut EXCEPT
               !.log = @ \o events,
               !.file = IF kind = "ok_full" THEN MAX_FILES + 1 ELSE @ + 1]
    /\ UNCHANGED <<app, store, pc, question, existing, retrieved, note, rounds,
                   passages, runs, served, mergeIn, mergeOut, chunkIn,
                   chunkOut, callIn>>

\* download_multiple_books after download_and_extract_text returned or
\* raised: time.sleep(2), then the next identifier.
BookDelay ==
    /\ Downloading
    /\ callOut.book <= Len(callIn.books)
    /\ callOut.file > Min(MAX_FILES, Len(callIn.books[callOut.book]))
    /\ callOut' = [callOut EXCEPT !.log = Append(@, "sleep"),
                                  !.book = @ + 1, !.file = 0]
    /\ UNCHANGED <<app, store, pc, question, existing, retrieved, note, rounds,
                   passages, runs, served, mergeIn, mergeOut, chunkIn,
                   chunkOut, callIn>>

\* return results
DownloadsDone ==
    /\ Downloading
    /\ callOut.book > Len(callIn.books)
    /\ callOut' = [callOut EXCEPT !.made = TRUE]
    /\ UNCHANGED <<app, store, pc, question, existing, retrieved, note, rounds,
                   passages, runs, served, mergeIn, mergeOut, chunkIn,
                   chunkOut, callIn>>

NextDownload == GetItemFiles \/ FileTurn \/ BookDelay \/ DownloadsDone

SpecDownload == InitDownload /\ [][NextDownload]_vars

----------------------------------------------------------------------------
(* Properties of the service.                                              *)

\* A document is fully indexed when, under every id scheme it has a chunk
\* of, all the chunks of its text are in the store.
FullyIndexed(st, b) ==
    \A c \in st : c.book = b =>
        \A i \in 0..(NumChunks(b, c.doc[2]) - 1) :
            \E d \in st : d.id = ChunkId(b, c.id[2], i)

\* The last two indexing runs chunked the same documents and the first one
\* wrote every batch.
SameDocumentTwice ==
    /\ Len(runs) = 2
    /\ runs[1].books = runs[2].books
    /\ runs[1].ok

\* C1: indexing the same documents twice through chunk_book_text and
\* add_documents_with_embeddings produces the same list of chunk ids and
\* the same number of chunks both times, and the second run leaves the
\* store with the same ids and contents and the same count as the first.
C1_IndexingIsIdempotent ==
    SameDocumentTwice =>
        /\ runs[2].ids = runs[1].ids
        /\ runs[2].n = runs[1].n
        /\ runs[2].content = runs[1].content
        /\ runs[2].count = runs[1].count

\* C1 witness: a second complete run over documents a first complete run
\* had already indexed.
C1_Witness ==
    /\ SameDocumentTwice
    /\ runs[2].ok
    /\ runs[2].n > BATCH_SIZE

\* C2: every document in the store is fully indexed; no state holds only
\* some of a document's chunks.
C2_AbsentOrFullyIndexed == \A b \in Books : FullyIndexed(store, b)

\* C3: when the store rejects a batch or is unavailable during indexing,
\* the step that indexed ends with an explicit error.
C3_RejectionIsSurfaced == note.rejected => note.error

\* C4: get_existing_book_ids reports a document only if all of its chunks
\* were upserted; a document whose indexing failed part-way is not reported.
C4_MembershipMeansComplete ==
    \A b \in get_existing_book_ids(store, TRUE) :
        \A c \in store : c.book = b =>
            Cardinality({d \in store : d.book = b /\ d.id[2] = c.id[2]})
                = NumChunks(b, c.doc[2])

\* C5: the passage list handed to the answer synthesis never holds more
\* than 5 passages.
C5_AtMostFivePassages == Len(passages) <= 5

\* C6: one request goes through acquire-and-index and re-query at most once.
C6_AtMostOneRound == rounds <= 1

\* What the sufficiency predicate is stated to require of the primary
\* results: at least 3 of them and, when a person or an event was detected,
\* one result that corroborates it in both its identifier and its content.
Corroborated(q, docs) ==
    \E i \in 1..Len(docs) :
        \/ \E p \in q.people : /\ IdHasPersonPart(docs[i].chunk.book, p)
                               /\ ContentMentionsPerson(docs[i].chunk.doc, p)
        \/ \E e \in q.events : /\ IdHasEventWord(docs[i].chunk.book, e)
                               /\ ContentHasEventKeyword(docs[i].chunk.doc, e)

\* C7: the primary results are returned without expanding the search only
\* if there are at least 3 of them and, when a person or event was detected,
\* one of them corroborates it in both identifier and content.
C7_SufficientOnlyIfCorroborated ==
    (app = "refactored" /\ note.op = "fallback" /\ note.kind = "sufficient") =>
        /\ Len(note.judged) >= 3
        /\ (question.people # {} \/ question.events # {})
              => Corroborated(question, note.judged)

\* C8: handle_local_books_fallback returns a non-empty list only when the
\* sufficiency predicate holds of it; otherwise it returns the empty list.
C8_NonEmptyOnlyIfSufficient ==
    (app = "refactored" /\ note.op = "fallback" /\ retrieved # <<>>) =>
        ~need_fallback(question, retrieved)

----------------------------------------------------------------------------
(* Properties of the merge.                                                *)

TextsOf(hits) == {hits[i].chunk.doc : i \in 1..Len(hits)}

Occurrences(hits, t) == Cardinality({i \in 1..Len(hits) : hits[i].chunk.doc = t})

MergeInput == mergeIn.base \o mergeIn.probes

C10_ErrorRecoveredByFallback ==
    (chunkOut.made /\ chunkOut.raised) => chunkOut.st = "ok"

\* Whether the call finds the store unavailable: no collection is held and
\* the client or the collection cannot be initialised.
StoreUnavailable(c) ==
    /\ ~c.handles.collection
    /\ \/ ~c.handles.client /\ ~c.clientUp
       \/ ~c.collUp

C12_IndexedDocumentNotWrittenAgain ==
    [][\A b \in existing' : \A c \in store' : c.book = b => c \in store]_vars

(* C13: a document indexed in an earlier step of a request counts as       *)
(* indexed in every later step of that request: the fallback step never    *)
(* selects, as not yet in the store, a document the primary indexing of    *)
(* the same request has just written.                                      *)
C13_FallbackSkipsDocumentsJustIndexed ==
    (app = "refactored" /\ Len(runs) = 2 /\ runs[1].ok) =>
        runs[1].books \cap runs[2].books = {}

(* C14: delete_document(d) removes every chunk whose document identifier   *)
(* is d, returns the number of chunks removed, leaves the chunks of every  *)
(* other document unchanged, and afterwards d is not in IndexMembership.   *)
C14_DeleteRemovesTheDocument ==
    callOut.made =>
        /\ ~callOut.raised
        /\ callOut.store = {c \in callIn.store : c.book # callIn.book_id}
        /\ callOut.deleted_chunks =
               Cardinality({c \in callIn.store : c.book = callIn.book_id})
        /\ callIn.book_id \notin get_existing_book_ids(callOut.store, TRUE)

(* C15: when the store supplies None as the distance of one or more hits,  *)
(* query_with_multiple_strategies still returns merged hits, with a        *)
(* None-distance hit behind every numeric-distance hit of its priority     *)
(* class; a None distance never gives an empty result.                     *)
C15_NoneDistanceRanksLast ==
    (mergeOut.made /\ \E i \in 1..Len(MergeInput) : MergeInput[i].dist = NoDist)
    => /\ mergeOut.hits # <<>>
       /\ \A i, j \in 1..Len(mergeOut.hits) :
              (/\ i < j
               /\ Priority(mergeOut.hits[i]) = Priority(mergeOut.hits[j])
               /\ mergeOut.hits[i].dist = NoDist)
              => mergeOut.hits[j].dist = NoDist

(* C16: two requests that index the same document leave it in the store    *)
(* exactly once and unmixed: when a step of a request writes chunks of a   *)
(* document that an earlier request had already indexed (its identifier    *)
(* was in the store when this request read the indexed identifiers), the   *)
(* store afterwards holds one chunk per chunk index of that document, all  *)
(* under one id scheme and with one source type, as if a single request    *)
(* had written them.                                                       *)
C16_SameDocumentWritersLeaveOneCopy ==
    [][\A b \in existing' :
          (\E w \in store' : w.book = b /\ w \notin store) =>
              \A c, d \in store' :
                  (c.book = b /\ d.book = b) =>
                      /\ c.id[2] = d.id[2]
                      /\ c.src = d.src
                      /\ (c.idx = d.idx => c = d)]_vars

\* The keyword collaborator gave nothing usable: it is unavailable, it
\* raised, its output is not a JSON list of strings, the list is empty, or
\* the list holds the question as asked.
NoKeywords(c) ==
    \/ ~c.client
    \/ c.reply.kind # "json_strings"
    \/ c.reply.value = <<>>
    \/ c.reply.value = <<c.question>>

(* C17: when the keyword collaborator is unavailable, raises, returns      *)
(* something that is not a JSON list of strings, returns the empty list    *)
(* or returns the question verbatim, generate_search_keywords returns      *)
(* keyword_terms = [question] and raises nothing.                          *)
C17_FallsBackToTheQuestion ==
    (callOut.made /\ NoKeywords(callIn)) =>
        /\ ~callOut.raised
        /\ callOut.keywords = <<callIn.question>>

\* The lists of the issued upsert calls, one after the other.
RECURSIVE Joined(_, _)
Joined(upserts, field) ==
    IF upserts = <<>> THEN <<>>
    ELSE Head(upserts)[field] \o Joined(Tail(upserts), field)

\* Every upsert the loop would issue was issued.
AllIssued ==
    callOut.made /\ Len(callOut.upserts) = NumBatches(Len(callIn.docs))

(* C18: add_documents_with_embeddings never hands more than BATCH_SIZE     *)
(* chunks to one upsert; every upsert carries documents, metadatas and ids *)
(* cut at the same positions; the upserts issued are consecutive slices    *)
(* that do not overlap, each chunk with its own id and metadata, and when  *)
(* the loop runs to its end their concatenation is the whole input.        *)
C18_BatchesAreConsecutiveSlices ==
    callOut.made =>
        /\ \A k \in 1..Len(callOut.upserts) :
              LET u == callOut.upserts[k]
              IN  /\ Len(u.documents) <= BATCH_SIZE
                  /\ Len(u.documents) >= 1
                  /\ Len(u.metadatas) = Len(u.documents)
                  /\ Len(u.ids) = Len(u.documents)
        /\ LET n == Len(Joined(callOut.upserts, "documents"))
           IN  /\ n <= Len(callIn.docs)
               /\ Joined(callOut.upserts, "documents") = SubSeq(callIn.docs, 1, n)
               /\ Joined(callOut.upserts, "metadatas")
                      = SubSeq(callIn.metadatas, 1, n)
               /\ Joined(callOut.upserts, "ids") = SubSeq(callIn.ids, 1, n)
        /\ AllIssued =>
              /\ Joined(callOut.upserts, "documents") = callIn.docs
              /\ Joined(callOut.upserts, "metadatas") = callIn.metadatas
              /\ Joined(callOut.upserts, "ids") = callIn.ids

\* C18 witness: an add of more chunks than one batch holds, whose last
\* batch is shorter than the others, with every upsert issued.
C18_Witness ==
    /\ AllIssued
    /\ Len(callOut.upserts) >= 2
    /\ Len(callIn.docs) % BATCH_SIZE # 0
    /\ ~callOut.rejected

\* sum(len(chunk) for chunk in chunks)
RECURSIVE TotalLen(_)
TotalLen(chunks) ==
    IF chunks = <<>> THEN 0 ELSE Len(Head(chunks)) + TotalLen(Tail(chunks))

(* C19: for every non-empty text and every chunk size of at least 1,       *)
(* chunk_text with the sentence-based or the paragraph-based strategy      *)
(* returns chunks whose total length divided by the length of the text as  *)
(* given lies between 0.95 and 1.15.                                       *)
C19_CoverageWithinBounds ==
    (/\ chunkOut.made
     /\ chunkIn.strategy \in {"sentence", "paragraph"}
     /\ chunkIn.chunk_size >= 1
     /\ chunkIn.text # <<>>)
    => /\ chunkOut.st = "ok"
       /\ 100 * TotalLen(chunkOut.chunks) >= 95 * Len(chunkIn.text)
       /\ 100 * TotalLen(chunkOut.chunks) <= 115 * Len(chunkIn.text)

\* The text has a sentence end ([.!?]) in every stretch of T characters.
BoundaryEvery(text, T) ==
    \A i \in 1..(Len(text) - T + 1) :
        \E j \in i..(i + T - 1) : text[j] \in SentenceEnd

(* C20: sentence-based segmentation with target size T >= 1 of a text that *)
(* has at least one sentence boundary in every T characters returns, and   *)
(* returns no chunk longer than 2T characters.                             *)
C20_NoChunkLongerThanTwiceTheTarget ==
    (/\ chunkOut.made
     /\ chunkIn.strategy = "sentence"
     /\ chunkIn.chunk_size >= 1
     /\ BoundaryEvery(chunkIn.text, chunkIn.chunk_size))
    => /\ chunkOut.st = "ok"
       /\ \A k \in 1..Len(chunkOut.chunks) :
              Len(chunkOut.chunks[k]) <= 2 * chunkIn.chunk_size

\* C20 witness: a text longer than the target size, with a sentence end in
\* every T characters, that was cut into several chunks after a sentence
\* longer than the target had to be split.
C20_Witness ==
    /\ chunkOut.made
    /\ chunkIn.strategy = "sentence"
    /\ chunkIn.chunk_size >= 2
    /\ BoundaryEvery(chunkIn.text, chunkIn.chunk_size)
    /\ Len(chunkIn.text) > chunkIn.chunk_size
    /\ Len(chunkOut.chunks) >= 2
    /\ \E k \in 1..Len(chunkOut.chunks) :
           Len(chunkOut.chunks[k]) = chunkIn.chunk_size
    /\ Len(SplitSentences(clean_text(chunkIn.text), 1, 1)) = 1
    /\ \E j \in 1..Len(chunkIn.text) : chunkIn.text[j] \in Letter

\* How often x is in the list s.
Count(s, x) == Cardinality({i \in 1..Len(s) : s[i] = x})

\* The question, here in lower case, holds a variation of entry i.
HoldsVariation(question_lower, i) ==
    \E v \in 1..Len(known_people[i].variations) :
        Contains(question_lower, known_people[i].variations[v])

(* C21: a question that holds, case-insensitively, a variation of a known  *)
(* person yields that person's canonical name exactly once; a question     *)
(* that holds no variation and no pair of capitalised words yields the     *)
(* empty list; 'Who was Napoleon?' yields ['napoleon bonaparte'] and       *)
(* 'Random unrelated text' yields [].                                      *)
C21_KnownPeopleOnceAndNoOthers ==
    callOut.made =>
        /\ LET question_lower == Lower(callIn.question)
           IN  /\ \A i \in 1..Len(known_people) :
                      HoldsVariation(question_lower, i) =>
                          Count(callOut.people, known_people[i].full_name) = 1
               /\ ((\A i \in 1..Len(known_people) :
                          ~HoldsVariation(question_lower, i))
                    /\ FindNames(callIn.question, 1) = <<>>)
                       => callOut.people = <<>>
        /\ callIn.question = <<"W", "h", "o", " ", "w", "a", "s", " ", "N", "a", "p", "o", "l", "e", "o", "n", "?">>
               => callOut.people = <<<<"n", "a", "p", "o", "l", "e", "o", "n", " ", "b", "o", "n", "a", "p", "a", "r", "t", "e">>>>
        /\ callIn.question = <<"R", "a", "n", "d", "o", "m", " ", "u", "n", "r", "e", "l", "a", "t", "e", "d", " ", "t", "e", "x", "t">>
               => callOut.people = <<>>

\* C21 witness: a question that names a known person in full, with capital
\* letters, so that the name is found both through its variations and as a
\* pair of capitalised words.
C21_Witness ==
    /\ callOut.made
    /\ callIn.question = <<"w", "a", "s", " ", "N", "a", "p", "o", "l", "e", "o", "n", " ", "B", "o", "n", "a", "p", "a", "r", "t", "e">>
    /\ callOut.people = <<<<"n", "a", "p", "o", "l", "e", "o", "n", " ", "b", "o", "n", "a", "p", "a", "r", "t", "e">>>>

\* The place of the first hit equal to h among the hits the queries
\* returned, base query first, then the probes in the order issued.
FirstIndex(h) ==
    CHOOSE k \in 1..Len(MergeInput) :
        /\ MergeInput[k] = h
        /\ \A l \in 1..(k - 1) : MergeInput[l] # h

(* C22: in the merged output of query_with_multiple_strategies a hit of a  *)
(* higher priority class (a known high-value source) precedes every hit of *)
(* a lower class whatever the distances; within a class the distances      *)
(* ascend; hits of equal class and equal distance are in the order in      *)
(* which the queries returned them.                                        *)
C22_PriorityThenDistanceThenQueryOrder ==
    mergeOut.made =>
        \A i, j \in 1..Len(mergeOut.hits) :
            i < j =>
                LET a == mergeOut.hits[i]
                    b == mergeOut.hits[j]
                IN  /\ Priority(a) <= Priority(b)
                    /\ Priority(a) = Priority(b) => a.dist <= b.dist
                    /\ (Priority(a) = Priority(b) /\ a.dist = b.dist)
                           => FirstIndex(a) < FirstIndex(b)

\* C22 witness: a merge that puts a high-value hit before a nearer hit of
\* another source that the base query had returned first, and keeps two
\* hits of equal class and distance in their query order.
C22_Witness ==
    /\ mergeOut.made
    /\ \E i, j \in 1..Len(mergeOut.hits) :
          /\ i < j
          /\ Priority(mergeOut.hits[i]) < Priority(mergeOut.hits[j])
          /\ mergeOut.hits[i].dist > mergeOut.hits[j].dist
          /\ FirstIndex(mergeOut.hits[i]) > FirstIndex(mergeOut.hits[j])
    /\ \E i, j \in 1..Len(mergeOut.hits) :
          /\ i < j
          /\ Priority(mergeOut.hits[i]) = Priority(mergeOut.hits[j])
          /\ mergeOut.hits[i].dist = mergeOut.hits[j].dist

\* The hits of a pool that pass the selection: every hit for ai.py, the
\* hits of at least 10 characters for process_query_results.
Survivors ==
    IF app = "ai" THEN callIn.results
    ELSE SelectSeq(callIn.results, LAMBDA h : ContentLen(h.chunk.doc) >= 10)

\* The number of different candidates (document and chunk index) of a pool.
DistinctCandidates ==
    Cardinality({<<callIn.results[i].chunk.book, callIn.results[i].chunk.idx>> :
                    i \in 1..Len(callIn.results)})

(* C23: when fewer than 2 passages survive the selection of the pool, the  *)
(* retrieval step re-includes candidates of the pool, and the list it      *)
(* returns has min(5, number of distinct candidates of the pool) passages. *)
C23_RelaxedToThePool ==
    (callOut.made /\ Len(Survivors) < 2) =>
        Len(callOut.docs) = Min(5, DistinctCandidates)

\* Whether the hit is from a source about a person or an event detected in
\* the question of the call.
EntityRelevant(h) == IsRelevant(callIn.question, h)

(* C24: in the output of process_query_results, when a person or an event  *)
(* was detected in the question every entity-relevant hit precedes every   *)
(* other hit, and other hits are present only if fewer than 5              *)
(* entity-relevant hits passed the minimum-length filter; when nothing was *)
(* detected the output is the first 5 hits that passed it, in pool order.  *)
C24_EntityRelevantFirst ==
    (app = "refactored" /\ callOut.made) =>
        LET docs == callOut.docs
            detected == callIn.question.people # {} \/ callIn.question.events # {}
        IN  IF detected
            THEN /\ \A i, j \in 1..Len(docs) :
                        (EntityRelevant(docs[j]) /\ ~EntityRelevant(docs[i]))
                            => j < i
                 /\ (\E i \in 1..Len(docs) : ~EntityRelevant(docs[i]))
                        => Len(SelectSeq(Survivors, EntityRelevant)) < 5
            ELSE docs = Take(Survivors, 5)

\* C24 witness: a person or event was detected, the pool has a hit of
\* another source before an entity-relevant one, and the output has both.
C24_Witness ==
    /\ app = "refactored" /\ callOut.made
    /\ callIn.question.people # {}
    /\ \E i, j \in 1..Len(callIn.results) :
          /\ i < j
          /\ ~EntityRelevant(callIn.results[i])
          /\ EntityRelevant(callIn.results[j])
          /\ \E k, l \in 1..Len(callOut.docs) :
                /\ callOut.docs[k] = callIn.results[j]
                /\ callOut.docs[l] = callIn.results[i]

(* C25: chunk_text with the adaptive strategy chunks a text of more than 3 *)
(* blank-line-separated paragraphs whose average length is below 0.8 times *)
(* the chunk size with the paragraph-based strategy.                       *)
C25_ParagraphTextsGetParagraphChunking ==
    LET paragraph_count == Len(SplitParagraphs(chunkIn.text, 1, 1))
    IN  (/\ chunkOut.made
         /\ chunkIn.strategy = "adaptive"
         /\ paragraph_count > 3
         /\ 10 * Len(chunkIn.text) < 8 * chunkIn.chunk_size * paragraph_count)
            => /\ adaptive_strategy(clean_text(chunkIn.text),
                                    chunkIn.chunk_size) = "paragraph"
               /\ chunkOut.st = "ok"
               /\ chunkOut.chunks =
                      chunk_by_paragraphs(chunkIn.text, chunkIn.chunk_size).chunks

\* The full names of persons among the strings of the model, as the
\* planner's lower-casing leaves them or as written.
FullPersonNames == {<<"N", "a", "p", "o", "l", "e", "o", "n", " ", "B", "o", "n", "a", "p", "a", "r", "t", "e">>, <<"n", "a", "p", "o", "l", "e", "o", "n", " ", "b", "o", "n", "a", "p", "a", "r", "t", "e">>}

(* C26: every multi-word full person name among the keyword terms, from    *)
(* generate_keywords_from_question or from the [question] fallback, is     *)
(* classified as a person name by build_internet_archive_query_string and  *)
(* is one of the parts of the query joined with AND, as a quoted phrase.   *)
C26_FullNamesAreQuotedAndParts ==
    callOut.made =>
        \A i \in 1..Len(callOut.keywords) :
            callOut.keywords[i] \in FullPersonNames =>
                /\ \E j \in 1..Len(callOut.archive.people_names) :
                        callOut.archive.people_names[j] = callOut.keywords[i]
                /\ callOut.archive.joiner = "AND"
                /\ \E j \in 1..Len(callOut.archive.query_parts) :
                        callOut.archive.query_parts[j] = Quote(callOut.keywords[i])

(* C27: between any two successive download requests that                  *)
(* download_multiple_books and download_and_extract_text send to the       *)
(* archive, also after a failed or skipped download, a delay occurs before *)
(* the next request is sent.                                               *)
C27_DelayBetweenDownloads ==
    \A i, j \in 1..Len(callOut.log) :
        (i < j /\ callOut.log[i] = "download" /\ callOut.log[j] = "download")
            => \E k \in (i + 1)..(j - 1) : callOut.log[k] = "sleep"

\* C28, first part: the sliding window ends for every text, chunk size of
\* at least 1 and overlap from 0 to below the chunk size.
SlidingWindowEnds ==
    (/\ chunkOut.made /\ chunkIn.strategy = "sliding"
     /\ chunkIn.chunk_size >= 1
     /\ chunkIn.overlap >= 0 /\ chunkIn.overlap < chunkIn.chunk_size)
        => chunkOut.st # "hang"

\* C28, second part: the adaptive strategy ends on a text an indexing path
\* accepts (more than 100 characters) with the chunk size
\* get_optimal_chunk_size gives for it.
AdaptiveEnds ==
    (/\ chunkOut.made /\ chunkIn.strategy = "adaptive"
     /\ Len(chunkIn.text) > 100
     /\ chunkIn.chunk_size = get_optimal_chunk_size(Len(chunkIn.text), 1000))
        => chunkOut.st # "hang"

(* C28: chunk_with_sliding_window terminates for every text, chunk_size    *)
(* >= 1 and 0 <= overlap < chunk_size, and chunk_text with the adaptive    *)
(* strategy terminates for the chunk sizes get_optimal_chunk_size returns  *)
(* for the texts the indexing paths accept.                                *)
C28_SlidingWindowTerminates == SlidingWindowEnds /\ AdaptiveEnds

\* The characters of the chunks in order, and a text without its whitespace.
RECURSIVE Concat(_)
Concat(chunks) ==
    IF chunks = <<>> THEN <<>> ELSE Head(chunks) \o Concat(Tail(chunks))

NoWhitespace(s) == SelectSeq(s, LAMBDA c : c \notin Whitespace)

(* C29: sentence-based segmentation preserves content: the chunks joined   *)
(* in order, whitespace removed, are the normalised text with its          *)
(* whitespace removed, also when split_long_sentence cut a long sentence.  *)
C29_SentenceChunksPreserveContent ==
    (/\ chunkOut.made /\ chunkIn.strategy = "sentence"
     /\ chunkIn.chunk_size >= 1
     /\ chunkOut.st = "ok" /\ ~chunkOut.raised)
        => NoWhitespace(Concat(chunkOut.chunks))
               = NoWhitespace(clean_text(chunkIn.text))

(* C30: after any sequence of requests the store never holds two chunks    *)
(* with the same document identifier and the same chunk index under        *)
(* different chunk ids.                                                    *)
C30_OneIdPerDocumentAndIndex ==
    \A c, d \in store :
        (c.book = d.book /\ c.idx = d.idx) => c.id = d.id

====
